---- MODULE Spec2Model ----
(***************************************************************************)
(* A model of schema-diff-pro's front end.                                 *)
(*                                                                         *)
(*   SpecGen : the per-difference SQL generator of DifferenceDetail        *)
(*             (buildColumnDefinition, generateCreateTableSQL,             *)
(*             generateOption1SQL, generateOption2SQL).  Option 1 is the   *)
(*             target_to_source rule (runs on SOURCE), option 2 the        *)
(*             source_to_target rule (runs on TARGET).                     *)
(*   Spec    : the ComparisonResults component (script cache, Apply,       *)
(*             Confirm) together with the sync endpoints it calls.         *)
(*                                                                         *)
(* SQL text is a sequence of tokens.  A token is either a piece of a       *)
(* template literal of the source or one character of an interpolated      *)
(* value, so that escaping works on characters as String.replace does.     *)
(***************************************************************************)
EXTENDS Integers, Sequences, FiniteSets, TLC

VARIABLES
    \* ---- DifferenceDetail -------------------------------------------
    difference,       \* the `difference` prop of the mounted DifferenceDetail
    option1,          \* text rendered by generateOption1SQL()
    option2,          \* text rendered by generateOption2SQL()
    legacyOption1,    \* the same, by the earlier copy of the component
    legacyOption2,
    clipboard,        \* navigator.clipboard after copyToClipboard
    \* ---- ComparisonResults ------------------------------------------
    ui,               \* the component's React state
    net,              \* requests in flight
    backend,          \* what the sync endpoints have done
    \* ---- ComparisonProgress and the page that mounts it ---------------
    progress,         \* the effect's closure, its requests and timers
    \* ---- the sync engine behind the endpoints -----------------------
    syncEngine,       \* the run of the executor, analyzer or generator
    \* ---- task-api ---------------------------------------------------
    taskApi,          \* the tasks table, the clock and the last exchange
    \* ---- the other components of the page -----------------------------
    panel             \* the export, the connection form, the key upload or
                      \* the two views of a difference

genVars == <<difference, option1, option2, legacyOption1, legacyOption2, clipboard>>
uiVars == <<ui, net, backend>>
\* what lies outside DifferenceDetail and ComparisonResults
outerVars == <<progress, syncEngine, taskApi, panel>>
vars == <<difference, option1, option2, legacyOption1, legacyOption2, clipboard,
          ui, net, backend, progress, syncEngine, taskApi, panel>>

-----------------------------------------------------------------------------
(* Bounds *)

\* longest default value / comment drawn character by character
MaxLen == 1

-----------------------------------------------------------------------------
(* Text *)

T(tok) == <<tok>>

\* the characters of interpolated values
BS == "\\"
QT == "'"
NL == "\n"

LowerChars == <<"a", "c", "u", "r", "e", "n", "t", "_", "i", "m", "s", "p", "l", "b", "o", "d", "g",
                "f", "h", "q", "v", "w", "x", "y">>
UpperChars == <<"A", "C", "U", "R", "E", "N", "T", "_", "I", "M", "S", "P", "L", "B", "O", "D", "G",
                "F", "H", "Q", "V", "W", "X", "Y">>

\* String.prototype.toUpperCase, one character
toUpperChar(c) ==
    IF \E i \in 1..Len(LowerChars) : LowerChars[i] = c
    THEN UpperChars[CHOOSE i \in 1..Len(LowerChars) : LowerChars[i] = c]
    ELSE c

toUpperCase(s) == [i \in 1..Len(s) |-> toUpperChar(s[i])]

\* String.prototype.toLowerCase, one character
toLowerChar(c) ==
    IF \E i \in 1..Len(UpperChars) : UpperChars[i] = c
    THEN LowerChars[CHOOSE i \in 1..Len(UpperChars) : UpperChars[i] = c]
    ELSE c

toLowerCase(s) == [i \in 1..Len(s) |-> toLowerChar(s[i])]

startsWith(s, p) == Len(s) >= Len(p) /\ SubSeq(s, 1, Len(p)) = p

\* String.prototype.includes
includes(s, p) ==
    \E i \in 1..(Len(s) - Len(p) + 1) : SubSeq(s, i, i + Len(p) - 1) = p

\* value.replace(/c/g, r): every occurrence of the character c becomes r
RECURSIVE replaceAll(_, _, _)
replaceAll(s, c, r) ==
    IF s = <<>> THEN <<>>
    ELSE (IF Head(s) = c THEN r ELSE <<Head(s)>>) \o replaceAll(Tail(s), c, r)

\* a mutant: only the quotes are doubled
escapeSqlString_quotesOnly(value) == replaceAll(value, QT, <<QT, QT>>)

\* DifferenceDetail.tsx:19  value.replace(/\\/g, '\\\\').replace(/'/g, "''")
escapeSqlString(value) ==
    replaceAll(replaceAll(value, BS, <<BS, BS>>), QT, <<QT, QT>>)

CURRENT_ == <<"C", "U", "R", "R", "E", "N", "T", "_">>
CURRENT_TIMESTAMP == CURRENT_ \o <<"T", "I", "M", "E", "S", "T", "A", "M", "P">>
CURRENT_DATE == CURRENT_ \o <<"D", "A", "T", "E">>
NULLWORD == <<"N", "U", "L", "L">>

-----------------------------------------------------------------------------
(* JavaScript values *)

Undefined == [kind |-> "undefined"]
Null == [kind |-> "null"]
Str(s) == [kind |-> "string", chars |-> s]

Bool(b) == [kind |-> "boolean", text |-> IF b THEN "true" ELSE "false"]
Arr(items) == [kind |-> "array", items |-> items]

\* a value is "truthy" unless undefined, null, false or ''
truthy(v) ==
    /\ v.kind # "undefined"
    /\ v.kind # "null"
    /\ (v.kind = "string" => v.chars # <<>>)
    /\ (v.kind = "boolean" => v.text = "true")
    /\ (v.kind = "number" => v.value # 0)

isObject(v) == v.kind = "object"

\* Array.prototype.join / the default Array toString
RECURSIVE join(_, _)
join(items, sep) ==
    IF items = <<>> THEN <<>>
    ELSE IF Len(items) = 1 THEN Head(items)
    ELSE Head(items) \o sep \o join(Tail(items), sep)

\* String(v), which is also what a template literal makes of v
String(v) ==
    CASE v.kind = "string" -> v.chars
      [] v.kind = "null" -> T("null")
      [] v.kind = "undefined" -> T("undefined")
      [] v.kind = "boolean" -> T(v.text)
      [] v.kind = "array" -> join(v.items, T(","))
      [] OTHER -> T("[object Object]")

\* String.prototype.trim on the token sequence: blanks at both ends go
RECURSIVE trimStart(_)
trimStart(s) == IF s # <<>> /\ Head(s) = " " THEN trimStart(Tail(s)) ELSE s

RECURSIVE trimEnd(_)
trimEnd(s) ==
    IF s # <<>> /\ s[Len(s)] = " " THEN trimEnd(SubSeq(s, 1, Len(s) - 1)) ELSE s

trim(s) == trimEnd(trimStart(s))

\* the backtick that quotes an identifier
BQ == "<backtick>"

Bt(name) == <<BQ>> \o name \o <<BQ>>

-----------------------------------------------------------------------------
(* buildColumnDefinition *)

VARCHAR255 == T("VARCHAR(255)")

\* `a || b` on strings
Or(a, b) == IF a # <<>> THEN a ELSE b

\* the test of DifferenceDetail.tsx:63 (and :429, :761) on the upper-cased text
isExpressionDefault(defaultStr) ==
    \/ defaultStr = CURRENT_TIMESTAMP
    \/ defaultStr = CURRENT_DATE
    \/ defaultStr = NULLWORD
    \/ startsWith(defaultStr, CURRENT_)

\* DifferenceDetail.tsx:58-68
defaultClause(colInfo) ==
    LET defaultVal == colInfo.column_default IN
    IF defaultVal.kind # "null" /\ defaultVal.kind # "undefined"
    THEN LET defaultStr == toUpperCase(String(defaultVal)) IN
         IF isExpressionDefault(defaultStr)
         THEN T(" DEFAULT ") \o String(defaultVal)
         ELSE T(" DEFAULT ") \o <<QT>> \o escapeSqlString(String(defaultVal)) \o <<QT>>
    ELSE <<>>

\* DifferenceDetail.tsx:76-81: the comment has only its quotes doubled
commentClause(colInfo) ==
    IF colInfo.comment # <<>>
    THEN LET escapedComment == replaceAll(colInfo.comment, QT, <<QT, QT>>) IN
         T(" COMMENT ") \o <<QT>> \o escapedComment \o <<QT>>
    ELSE <<>>

\* DifferenceDetail.tsx:30-84.  Every call passes colInfo alone, so the two
\* override parameters are undefined.
buildColumnDefinition(colInfo) ==
    IF ~isObject(colInfo)
    THEN (IF truthy(colInfo) THEN String(colInfo) ELSE VARCHAR255)
    ELSE
    LET colType == Or(colInfo.column_type, Or(colInfo.data_type, VARCHAR255))
        charset == colInfo.character_set
        charsetClause == IF charset # <<>> THEN T(" CHARACTER SET ") \o charset ELSE <<>>
        collation == colInfo.collation
        collationClause == IF collation # <<>> THEN T(" COLLATE ") \o collation ELSE <<>>
        nullable == IF colInfo.is_nullable = "true" THEN T("NULL") ELSE T("NOT NULL")
        extraClause == IF colInfo.extra # <<>> THEN T(" ") \o colInfo.extra ELSE <<>>
    IN trim(colType \o charsetClause \o collationClause \o T(" ") \o nullable
            \o defaultClause(colInfo) \o extraClause \o commentClause(colInfo))

-----------------------------------------------------------------------------
(* Pieces of the statement templates *)

\* "-- Execute on SOURCE database:\n"
ExecuteOn(side) == <<"--", " Execute on ", side, " database:", NL>>

\* a comment line of a template, with its newline
Note(text) == <<"--", text, NL>>

AlterTable(tableName) == T("ALTER TABLE ") \o tableName

\* DifferenceDetail.tsx:412-413 and :740-741
tableNameOf(d) == Bt(d.schema_name) \o T(".") \o Bt(d.object_name)
columnNameOf(d) == IF d.sub_object_name # <<>> THEN Bt(d.sub_object_name) ELSE <<>>

\* a property of a value that may not be an object: undefined then
Field(v, f) == IF isObject(v) THEN v[f] ELSE <<>>

\* the result of a call that throws a TypeError
Threw == T("!TypeError")

-----------------------------------------------------------------------------
(* generateCreateTableSQL, DifferenceDetail.tsx:286-349 *)

\* Array.prototype.sort((a, b) => posA - posB), which is stable
RECURSIVE insertByPosition(_, _)
insertByPosition(sorted, e) ==
    IF sorted = <<>> THEN <<e>>
    ELSE IF e.info.ordinal_position < Head(sorted).info.ordinal_position
         THEN <<e>> \o sorted
         ELSE <<Head(sorted)>> \o insertByPosition(Tail(sorted), e)

RECURSIVE sortByPosition(_)
sortByPosition(entries) ==
    IF entries = <<>> THEN <<>>
    ELSE insertByPosition(sortByPosition(SubSeq(entries, 1, Len(entries) - 1)),
                          entries[Len(entries)])

\* DifferenceDetail.tsx:312-332, one column of the CREATE TABLE
createTableColumn(colName, col) ==
    LET colType == Or(col.column_type, Or(col.data_type, VARCHAR255))
        nullable == IF col.is_nullable = "true" THEN T("NULL") ELSE T("NOT NULL")
        defaultVal == col.column_default
        defaultClauseCT ==
            IF defaultVal.kind # "null" /\ defaultVal.kind # "undefined"
            THEN IF /\ defaultVal.kind = "string"
                    /\ ~startsWith(toUpperCase(defaultVal.chars), CURRENT_)
                    /\ toUpperCase(defaultVal.chars) # NULLWORD
                 THEN T(" DEFAULT ") \o <<QT>> \o escapeSqlString(String(defaultVal)) \o <<QT>>
                 ELSE T(" DEFAULT ") \o String(defaultVal)
            ELSE <<>>
        extra == IF col.extra # <<>> /\ includes(toLowerCase(col.extra), T("auto_increment"))
                 THEN T(" AUTO_INCREMENT") ELSE <<>>
    IN Bt(colName) \o T(" ") \o colType \o T(" ") \o nullable \o defaultClauseCT \o extra

generateCreateTableSQL(tableData, tableName, targetDb) ==
    IF ~isObject(tableData)
    THEN ExecuteOn(targetDb) \o T("CREATE TABLE ") \o tableName \o T(" (") \o <<NL>>
         \o T("  ") \o Note(" Table structure not available") \o T(") ENGINE=InnoDB;")
    ELSE
    LET columns == tableData.columns
        engine == Or(tableData.engine, T("InnoDB"))
        collation == tableData.collation
        collationClause == IF collation # <<>> THEN T(" COLLATE=") \o collation ELSE <<>>
    IN
    IF columns = <<>>
    THEN ExecuteOn(targetDb) \o T("CREATE TABLE ") \o tableName \o T(" (") \o <<NL>>
         \o T("  ") \o Note(" Column information not available")
         \o T(") ENGINE=") \o engine \o collationClause \o T(";")
    ELSE
    LET sortedColumns == sortByPosition(columns)
        colDefs == [i \in 1..Len(sortedColumns) |->
                       createTableColumn(sortedColumns[i].name, sortedColumns[i].info)]
        pkIdx == {i \in 1..Len(sortedColumns) : sortedColumns[i].info.column_key = "PRI"}
        RECURSIVE pkNames(_)
        pkNames(i) ==
            IF i > Len(sortedColumns) THEN <<>>
            ELSE (IF i \in pkIdx THEN <<Bt(sortedColumns[i].name)>> ELSE <<>>) \o pkNames(i + 1)
        primaryKeys == pkNames(1)
        allDefs == IF primaryKeys # <<>>
                   THEN colDefs \o <<T("PRIMARY KEY (") \o join(primaryKeys, T(", ")) \o T(")")>>
                   ELSE colDefs
    IN ExecuteOn(targetDb) \o T("CREATE TABLE ") \o tableName \o T(" (") \o <<NL>>
       \o T("  ") \o join(allDefs, <<",", NL, "  ">>) \o <<NL>>
       \o T(")") \o T(" ENGINE=") \o engine \o collationClause \o T(";")

-----------------------------------------------------------------------------
(* Column rules.  The rule of option 1 (SOURCE side) reads target_value,   *)
(* the rule of option 2 (TARGET side) reads source_value; each is written  *)
(* out from its own lines of the source.                                   *)

\* DifferenceDetail.tsx:426-434 (option 1) and the same text at :758-766
addColumnDefaultValue(col) ==
    IF col.column_default.kind # "undefined" /\ col.column_default.kind # "null"
    THEN LET defVal == toUpperCase(String(col.column_default)) IN
         IF isExpressionDefault(defVal)
         THEN T(" DEFAULT ") \o String(col.column_default)
         ELSE T(" DEFAULT ") \o <<QT>> \o escapeSqlString(String(col.column_default)) \o <<QT>>
    ELSE <<>>

\* the nullable word of an added column: '' when is_nullable is undefined
addColumnNullable(col) ==
    IF col.is_nullable # "undefined"
    THEN (IF col.is_nullable = "true" THEN T("NULL") ELSE T("NOT NULL"))
    ELSE <<>>

\* DifferenceDetail.tsx:416-439
option1ColumnAdded(d) ==
    LET tableName == tableNameOf(d)
        columnName == columnNameOf(d)
        v == d.target_value
        columnType == Or(Field(v, "column_type"), Field(v, "data_type"))
    IN
    IF truthy(v) /\ v.kind = "string"
    THEN ExecuteOn("SOURCE") \o AlterTable(tableName) \o T(" ADD COLUMN ") \o columnName
         \o T(" ") \o v.chars \o T(";")
    ELSE IF truthy(v) /\ columnType # <<>>
    THEN ExecuteOn("SOURCE") \o AlterTable(tableName) \o T(" ADD COLUMN ") \o columnName
         \o T(" ") \o columnType \o T(" ") \o addColumnNullable(v)
         \o addColumnDefaultValue(v)
         \o (IF v.extra # <<>> THEN T(" ") \o v.extra ELSE <<>>) \o T(";")
    ELSE ExecuteOn("SOURCE") \o AlterTable(tableName) \o T(" ADD COLUMN ") \o columnName
         \o T(" VARCHAR(255) NULL;")

\* DifferenceDetail.tsx:744-746
option2ColumnAdded(d) ==
    ExecuteOn("TARGET") \o AlterTable(tableNameOf(d)) \o T(" DROP COLUMN ")
    \o columnNameOf(d) \o T(";")

\* DifferenceDetail.tsx:441-443
option1ColumnRemoved(d) ==
    ExecuteOn("SOURCE") \o AlterTable(tableNameOf(d)) \o T(" DROP COLUMN ")
    \o columnNameOf(d) \o T(";")

\* a mutant: the rule of option 2 reads the value of the wrong side
option2ColumnRemoved_readsTarget(d) ==
    ExecuteOn("TARGET") \o SubSeq(option1ColumnAdded(d), 6, Len(option1ColumnAdded(d)))

\* DifferenceDetail.tsx:748-771
option2ColumnRemoved(d) ==
    LET tableName == tableNameOf(d)
        columnName == columnNameOf(d)
        v == d.source_value
        columnType == Or(Field(v, "column_type"), Field(v, "data_type"))
    IN
    IF truthy(v) /\ v.kind = "string"
    THEN ExecuteOn("TARGET") \o AlterTable(tableName) \o T(" ADD COLUMN ") \o columnName
         \o T(" ") \o v.chars \o T(";")
    ELSE IF truthy(v) /\ columnType # <<>>
    THEN ExecuteOn("TARGET") \o AlterTable(tableName) \o T(" ADD COLUMN ") \o columnName
         \o T(" ") \o columnType \o T(" ") \o addColumnNullable(v)
         \o addColumnDefaultValue(v)
         \o (IF v.extra # <<>> THEN T(" ") \o v.extra ELSE <<>>) \o T(";")
    ELSE ExecuteOn("TARGET") \o AlterTable(tableName) \o T(" ADD COLUMN ") \o columnName
         \o T(" VARCHAR(255) NULL;")

\* ALTER TABLE t MODIFY COLUMN c <definition>;
ModifyColumn(side, d, definition) ==
    ExecuteOn(side) \o AlterTable(tableNameOf(d)) \o T(" MODIFY COLUMN ")
    \o columnNameOf(d) \o T(" ") \o definition \o T(";")

\* value.column_type || value.data_type of a value that is no string;
\* interpolated, undefined reads "undefined"
typeOrDataType(v) ==
    LET t == Or(Field(v, "column_type"), Field(v, "data_type")) IN
    IF t # <<>> THEN t ELSE T("undefined")

\* DifferenceDetail.tsx:445-460
option1ColumnTypeChanged(d) ==
    LET v == d.target_value IN
    IF truthy(v)
    THEN IF isObject(v)
         THEN ModifyColumn("SOURCE", d, buildColumnDefinition(v))
         ELSE ModifyColumn("SOURCE", d,
                  IF v.kind = "string" THEN v.chars ELSE typeOrDataType(v))
    ELSE <<"--", " Unable to determine target column type">>

\* DifferenceDetail.tsx:773-788
option2ColumnTypeChanged(d) ==
    LET v == d.source_value IN
    IF truthy(v)
    THEN IF isObject(v)
         THEN ModifyColumn("TARGET", d, buildColumnDefinition(v))
         ELSE ModifyColumn("TARGET", d,
                  IF v.kind = "string" THEN v.chars ELSE typeOrDataType(v))
    ELSE <<"--", " Unable to determine source column type">>

\* DifferenceDetail.tsx:462-482.  typeof null is 'object', so for null the
\* fallback reads null.is_nullable and throws.
option1ColumnNullableChanged(d) ==
    LET v == d.target_value IN
    IF v.kind # "undefined"
    THEN IF isObject(v)
         THEN ModifyColumn("SOURCE", d, buildColumnDefinition(v))
         ELSE IF v.kind = "null" THEN Threw
         ELSE ModifyColumn("SOURCE", d,
                  VARCHAR255 \o T(" ") \o (IF truthy(v) THEN T("NULL") ELSE T("NOT NULL")))
    ELSE <<"--", " Unable to determine target column info">>

\* DifferenceDetail.tsx:790-810
option2ColumnNullableChanged(d) ==
    LET v == d.source_value IN
    IF v.kind # "undefined"
    THEN IF isObject(v)
         THEN ModifyColumn("TARGET", d, buildColumnDefinition(v))
         ELSE IF v.kind = "null" THEN Threw
         ELSE ModifyColumn("TARGET", d,
                  VARCHAR255 \o T(" ") \o (IF truthy(v) THEN T("NULL") ELSE T("NOT NULL")))
    ELSE <<"--", " Unable to determine source column info">>

\* DifferenceDetail.tsx:499-502 and the same text at :827-830: the primitive
\* default is quoted but not escaped
quotedDefault(defaultVal) ==
    IF startsWith(toUpperCase(defaultVal), CURRENT_) \/ toUpperCase(defaultVal) = NULLWORD
    THEN defaultVal
    ELSE <<QT>> \o defaultVal \o <<QT>>

\* DifferenceDetail.tsx:484-506
option1ColumnDefaultChanged(d) ==
    LET v == d.target_value IN
    IF v.kind # "undefined"
    THEN IF isObject(v)
         THEN ModifyColumn("SOURCE", d, buildColumnDefinition(v))
         ELSE IF v.kind = "null"
         THEN ExecuteOn("SOURCE") \o AlterTable(tableNameOf(d)) \o T(" ALTER COLUMN ")
              \o columnNameOf(d) \o T(" DROP DEFAULT;")
         ELSE ExecuteOn("SOURCE") \o AlterTable(tableNameOf(d)) \o T(" ALTER COLUMN ")
              \o columnNameOf(d) \o T(" SET DEFAULT ") \o quotedDefault(String(v)) \o T(";")
    ELSE <<"--", " Unable to determine target default value">>

\* DifferenceDetail.tsx:812-834
option2ColumnDefaultChanged(d) ==
    LET v == d.source_value IN
    IF v.kind # "undefined"
    THEN IF isObject(v)
         THEN ModifyColumn("TARGET", d, buildColumnDefinition(v))
         ELSE IF v.kind = "null"
         THEN ExecuteOn("TARGET") \o AlterTable(tableNameOf(d)) \o T(" ALTER COLUMN ")
              \o columnNameOf(d) \o T(" DROP DEFAULT;")
         ELSE ExecuteOn("TARGET") \o AlterTable(tableNameOf(d)) \o T(" ALTER COLUMN ")
              \o columnNameOf(d) \o T(" SET DEFAULT ") \o quotedDefault(String(v)) \o T(";")
    ELSE <<"--", " Unable to determine source default value">>

\* a mutant: a comment the target lacks is taken over from the source
option1ColumnExtraChanged_mergesSourceComment(d) ==
    LET v == d.target_value IN
    IF truthy(v) /\ isObject(v)
    THEN ModifyColumn("SOURCE", d, buildColumnDefinition(
             [v EXCEPT !.comment = Or(v.comment, Field(d.source_value, "comment"))]))
    ELSE ExecuteOn("SOURCE") \o Note(" Modify column extra properties")
         \o AlterTable(tableNameOf(d)) \o T(" MODIFY COLUMN ") \o columnNameOf(d)
         \o T(" /* update properties */;")

\* DifferenceDetail.tsx:508-515
option1ColumnExtraChanged(d) ==
    LET v == d.target_value IN
    IF truthy(v) /\ isObject(v)
    THEN ModifyColumn("SOURCE", d, buildColumnDefinition(v))
    ELSE ExecuteOn("SOURCE") \o Note(" Modify column extra properties")
         \o AlterTable(tableNameOf(d)) \o T(" MODIFY COLUMN ") \o columnNameOf(d)
         \o T(" /* update properties */;")

\* DifferenceDetail.tsx:836-843
option2ColumnExtraChanged(d) ==
    LET v == d.source_value IN
    IF truthy(v) /\ isObject(v)
    THEN ModifyColumn("TARGET", d, buildColumnDefinition(v))
    ELSE ExecuteOn("TARGET") \o Note(" Modify column extra properties")
         \o AlterTable(tableNameOf(d)) \o T(" MODIFY COLUMN ") \o columnNameOf(d)
         \o T(" /* update properties */;")

\* DifferenceDetail.tsx:517-526
option1ColumnRenamed(d) ==
    LET v == d.target_value IN
    IF truthy(v) /\ isObject(v)
    THEN LET targetName == Or(d.target_display_value, T("target_name"))
             sourceName == Or(d.source_display_value, d.sub_object_name)
         IN ExecuteOn("SOURCE") \o Note(" Rename column to match target")
            \o AlterTable(tableNameOf(d)) \o T(" CHANGE COLUMN ") \o Bt(sourceName)
            \o T(" ") \o Bt(targetName) \o T(" ") \o buildColumnDefinition(v) \o T(";")
    ELSE ExecuteOn("SOURCE") \o AlterTable(tableNameOf(d)) \o T(" CHANGE COLUMN ")
         \o columnNameOf(d) \o T(" ") \o Bt(T("new_name")) \o T(" /* column definition */;")

\* DifferenceDetail.tsx:845-854
option2ColumnRenamed(d) ==
    LET v == d.source_value IN
    IF truthy(v) /\ isObject(v)
    THEN LET targetName == Or(d.target_display_value, T("target_name"))
             sourceName == Or(d.source_display_value, d.sub_object_name)
         IN ExecuteOn("TARGET") \o Note(" Rename column to match source")
            \o AlterTable(tableNameOf(d)) \o T(" CHANGE COLUMN ") \o Bt(targetName)
            \o T(" ") \o Bt(sourceName) \o T(" ") \o buildColumnDefinition(v) \o T(";")
    ELSE ExecuteOn("TARGET") \o AlterTable(tableNameOf(d)) \o T(" CHANGE COLUMN ")
         \o Bt(T("old_name")) \o T(" ") \o columnNameOf(d) \o T(" /* column definition */;")

-----------------------------------------------------------------------------
(* Index rules *)

\* DifferenceDetail.tsx:535-548 (and :859-872): CREATE [UNIQUE] INDEX from idx
createIndexFrom(side, d, idx) ==
    LET unique == IF isObject(idx) /\ idx.is_unique = "true" THEN T("UNIQUE ") ELSE <<>>
        raw == IF isObject(idx) THEN idx.columns ELSE Undefined
        joined == IF raw.kind = "array" THEN Str(join(raw.items, T(", "))) ELSE raw
        columns == IF truthy(joined) THEN String(joined) ELSE T("-- column_name --")
        it == Field(idx, "index_type")
        indexType == IF it # <<>> /\ it # T("BTREE") THEN T(" USING ") \o it ELSE <<>>
    IN ExecuteOn(side) \o T("CREATE ") \o unique \o T("INDEX ") \o columnNameOf(d)
       \o T(" ON ") \o tableNameOf(d) \o T(" (") \o columns \o T(")") \o indexType \o T(";")

\* DifferenceDetail.tsx:528-530
option1IndexMissingTarget(d) ==
    ExecuteOn("SOURCE") \o T("DROP INDEX ") \o columnNameOf(d) \o T(" ON ")
    \o tableNameOf(d) \o T(";")

\* DifferenceDetail.tsx:856-874
option2IndexMissingTarget(d) ==
    IF truthy(d.source_value)
    THEN createIndexFrom("TARGET", d, d.source_value)
    ELSE ExecuteOn("TARGET") \o T("CREATE INDEX ") \o columnNameOf(d) \o T(" ON ")
         \o tableNameOf(d) \o T(" (-- column_name --);")

\* DifferenceDetail.tsx:532-550
option1IndexMissingSource(d) ==
    IF truthy(d.target_value)
    THEN createIndexFrom("SOURCE", d, d.target_value)
    ELSE ExecuteOn("SOURCE") \o T("CREATE INDEX ") \o columnNameOf(d) \o T(" ON ")
         \o tableNameOf(d) \o T(" (-- column_name --);")

\* DifferenceDetail.tsx:876-878
option2IndexMissingSource(d) ==
    ExecuteOn("TARGET") \o T("DROP INDEX ") \o columnNameOf(d) \o T(" ON ")
    \o tableNameOf(d) \o T(";")

\* a name read off a value; interpolated, undefined reads "undefined"
NameField(v, f) == IF Field(v, f) # <<>> THEN Field(v, f) ELSE T("undefined")

RenameIndex(d, from, to) ==
    AlterTable(tableNameOf(d)) \o T(" RENAME INDEX ") \o Bt(from) \o T(" TO ") \o Bt(to)
    \o T(";")

\* DifferenceDetail.tsx:552-558
option1IndexRenamed(d) ==
    IF truthy(d.target_value)
    THEN ExecuteOn("SOURCE") \o Note(" Rename index to match target")
         \o RenameIndex(d, d.sub_object_name, NameField(d.target_value, "index_name"))
    ELSE ExecuteOn("SOURCE") \o RenameIndex(d, d.sub_object_name, T("new_name"))

\* DifferenceDetail.tsx:880-886: this rule too reads target_value
option2IndexRenamed(d) ==
    IF truthy(d.target_value)
    THEN ExecuteOn("TARGET") \o Note(" Rename index to match source")
         \o RenameIndex(d, NameField(d.target_value, "index_name"), d.sub_object_name)
    ELSE ExecuteOn("TARGET") \o RenameIndex(d, T("old_name"), d.sub_object_name)

\* DifferenceDetail.tsx:560-562
option1IndexDuplicateSource(d) ==
    ExecuteOn("SOURCE") \o Note(" Drop duplicate index")
    \o T("DROP INDEX ") \o Bt(d.sub_object_name) \o T(" ON ") \o tableNameOf(d) \o T(";")

\* DifferenceDetail.tsx:888-890
option2IndexDuplicateSource(d) ==
    Note(" No action needed on TARGET") \o <<"--", " Duplicate index exists only in SOURCE">>

\* DifferenceDetail.tsx:564-572
option1IndexDuplicateTarget(d) ==
    IF truthy(d.target_value)
    THEN LET idx == d.target_value
             unique == IF isObject(idx) /\ idx.is_unique = "true" THEN T("UNIQUE ") ELSE <<>>
             raw == IF isObject(idx) THEN idx.columns ELSE Undefined
             columns == IF truthy(raw) \/ raw.kind = "array"
                        THEN String(raw) ELSE T("-- columns --")
         IN ExecuteOn("SOURCE") \o Note(" Add duplicate index (NOT RECOMMENDED)")
            \o T("CREATE ") \o unique \o T("INDEX ") \o Bt(NameField(idx, "index_name"))
            \o T(" ON ") \o tableNameOf(d) \o T(" (") \o columns \o T(");")
    ELSE <<"--", " NOT RECOMMENDED: Duplicate index should be removed from target instead">>

\* DifferenceDetail.tsx:892-897
option2IndexDuplicateTarget(d) ==
    IF truthy(d.target_value)
    THEN ExecuteOn("TARGET") \o Note(" Drop duplicate index (RECOMMENDED)")
         \o T("DROP INDEX ") \o Bt(NameField(d.target_value, "index_name")) \o T(" ON ")
         \o tableNameOf(d) \o T(";")
    ELSE ExecuteOn("TARGET") \o Note(" Drop duplicate index")
         \o T("DROP INDEX ") \o Bt(d.sub_object_name) \o T(" ON ") \o tableNameOf(d) \o T(";")

-----------------------------------------------------------------------------
(* Constraint rules *)

\* const_data.columns || fallback, interpolated
columnsOr(v, f, fallback) ==
    LET raw == IF isObject(v) THEN v[f] ELSE Undefined IN
    IF truthy(raw) \/ raw.kind = "array" THEN String(raw) ELSE fallback

\* DifferenceDetail.tsx:577-588 (side SOURCE, const_data = source_value) and
\* :932-943 (side TARGET, const_data = target_value)
dropConstraint(side, d, const_data) ==
    LET constraintType == Field(const_data, "constraint_type") IN
    IF truthy(const_data) /\ constraintType = T("PRIMARY KEY")
    THEN ExecuteOn(side) \o AlterTable(tableNameOf(d)) \o T(" DROP PRIMARY KEY;")
    ELSE IF truthy(const_data) /\ constraintType = T("FOREIGN KEY")
    THEN ExecuteOn(side) \o AlterTable(tableNameOf(d)) \o T(" DROP FOREIGN KEY ")
         \o columnNameOf(d) \o T(";")
    ELSE IF truthy(const_data) /\ constraintType = T("UNIQUE")
    THEN ExecuteOn(side) \o AlterTable(tableNameOf(d)) \o T(" DROP INDEX ")
         \o columnNameOf(d) \o T(";")
    ELSE ExecuteOn(side) \o AlterTable(tableNameOf(d)) \o T(" DROP CONSTRAINT ")
         \o columnNameOf(d) \o T(";")

\* DifferenceDetail.tsx:593-618 (side SOURCE, const_data = target_value) and
\* :902-927 (side TARGET, const_data = source_value)
addConstraint(side, d, const_data) ==
    IF ~truthy(const_data)
    THEN <<"--", " Unable to generate constraint definition - missing constraint data">>
    ELSE
    LET constraintType == Field(const_data, "constraint_type")
        columns == columnsOr(const_data, "columns", T("column_name"))
        head == ExecuteOn(side) \o AlterTable(tableNameOf(d))
    IN
    IF constraintType = T("FOREIGN KEY")
    THEN LET refTable == Bt(NameField(const_data, "referenced_table_schema")) \o T(".")
                         \o Bt(NameField(const_data, "referenced_table_name"))
             refColumns == columnsOr(const_data, "referenced_columns", T("ref_column"))
             updateRule == Or(Field(const_data, "update_rule"), T("RESTRICT"))
             deleteRule == Or(Field(const_data, "delete_rule"), T("RESTRICT"))
         IN head \o T(" ADD CONSTRAINT ") \o columnNameOf(d) \o T(" FOREIGN KEY (")
            \o columns \o T(") REFERENCES ") \o refTable \o T(" (") \o refColumns
            \o T(") ON UPDATE ") \o updateRule \o T(" ON DELETE ") \o deleteRule \o T(";")
    ELSE IF constraintType = T("PRIMARY KEY")
    THEN head \o T(" ADD PRIMARY KEY (") \o columns \o T(");")
    ELSE IF constraintType = T("UNIQUE")
    THEN head \o T(" ADD CONSTRAINT ") \o columnNameOf(d) \o T(" UNIQUE (") \o columns
         \o T(");")
    ELSE IF constraintType = T("CHECK")
    THEN head \o T(" ADD CONSTRAINT ") \o columnNameOf(d) \o T(" CHECK (")
         \o Or(Field(const_data, "check_clause"), T("CHECK_CONDITION")) \o T(");")
    ELSE head \o T(" ADD CONSTRAINT ") \o columnNameOf(d) \o T(" ")
         \o (IF constraintType # <<>> THEN constraintType ELSE T("undefined"))
         \o T(" (") \o columns \o T(");")

\* DifferenceDetail.tsx:574-588
option1ConstraintMissingTarget(d) == dropConstraint("SOURCE", d, d.source_value)

\* DifferenceDetail.tsx:899-927
option2ConstraintMissingTarget(d) == addConstraint("TARGET", d, d.source_value)

\* DifferenceDetail.tsx:590-618
option1ConstraintMissingSource(d) == addConstraint("SOURCE", d, d.target_value)

\* DifferenceDetail.tsx:929-943
option2ConstraintMissingSource(d) == dropConstraint("TARGET", d, d.target_value)

\* DifferenceDetail.tsx:620-630
option1ConstraintRenamed(d) ==
    IF truthy(d.target_value)
    THEN LET targetName == NameField(d.target_value, "constraint_name") IN
         IF Field(d.target_value, "constraint_type") = T("UNIQUE")
         THEN ExecuteOn("SOURCE") \o Note(" Rename UNIQUE constraint to match target")
              \o RenameIndex(d, d.sub_object_name, targetName)
         ELSE ExecuteOn("SOURCE") \o Note(" Rename constraint to match target")
              \o Note(" Note: May require DROP and CREATE for some constraint types")
              \o RenameIndex(d, d.sub_object_name, targetName)
    ELSE ExecuteOn("SOURCE") \o RenameIndex(d, d.sub_object_name, T("new_name"))

\* DifferenceDetail.tsx:945-955: this rule too reads target_value
option2ConstraintRenamed(d) ==
    IF truthy(d.target_value)
    THEN LET targetName == NameField(d.target_value, "constraint_name") IN
         IF Field(d.target_value, "constraint_type") = T("UNIQUE")
         THEN ExecuteOn("TARGET") \o Note(" Rename UNIQUE constraint to match source")
              \o RenameIndex(d, targetName, d.sub_object_name)
         ELSE ExecuteOn("TARGET") \o Note(" Rename constraint to match source")
              \o Note(" Note: May require DROP and CREATE for some constraint types")
              \o RenameIndex(d, targetName, d.sub_object_name)
    ELSE ExecuteOn("TARGET") \o RenameIndex(d, T("old_name"), d.sub_object_name)

-----------------------------------------------------------------------------
(* Table and partition rules *)

\* DifferenceDetail.tsx:632-634
option1TableMissingTarget(d) ==
    ExecuteOn("SOURCE") \o T("DROP TABLE IF EXISTS ") \o tableNameOf(d) \o T(";")

\* DifferenceDetail.tsx:957-959
option2TableMissingTarget(d) ==
    generateCreateTableSQL(d.source_value, tableNameOf(d), "TARGET")

\* DifferenceDetail.tsx:636-638
option1TableMissingSource(d) ==
    generateCreateTableSQL(d.target_value, tableNameOf(d), "SOURCE")

\* DifferenceDetail.tsx:961-963
option2TableMissingSource(d) ==
    ExecuteOn("TARGET") \o T("DROP TABLE IF EXISTS ") \o tableNameOf(d) \o T(";")

ALL_PARTITIONS == T("(all partitions)")

\* value && typeof value === 'object'
isTruthyObject(v) == v.kind = "object" \/ v.kind = "array"

\* DifferenceDetail.tsx:659-668 (and :976-985): one line per partition, in
\* ordinal order
partDefs(partitions, method) ==
    LET sorted == sortByPosition(partitions) IN
    [i \in 1..Len(sorted) |->
        IF method = T("LIST")
        THEN T("  PARTITION ") \o Bt(sorted[i].name) \o T(" VALUES IN ")
             \o sorted[i].info.description
        ELSE T("  PARTITION ") \o Bt(sorted[i].name) \o T(" VALUES LESS THAN (")
             \o sorted[i].info.description \o T(")")]

\* DifferenceDetail.tsx:652-673 (and :969-990)
addPartitioning(side, d, partInfo) ==
    LET method == Or(Field(partInfo, "partition_method"), T("RANGE"))
        expression == Field(partInfo, "partition_expression")
        partitions == Field(partInfo, "partitions")
    IN
    IF isTruthyObject(partInfo) /\ partitions # <<>>
    THEN ExecuteOn(side) \o Note(" Add partitioning to table")
         \o AlterTable(tableNameOf(d)) \o <<NL>> \o T("PARTITION BY ") \o method
         \o T(" (") \o expression \o T(") (") \o <<NL>>
         \o join(partDefs(partitions, method), <<",", NL>>) \o <<NL>> \o T(");")
    ELSE ExecuteOn(side) \o <<"--", " Cannot generate partition SQL: missing partition info">>

\* DifferenceDetail.tsx:675-684 (and :992-1001)
addPartition(side, d, v, other) ==
    IF isTruthyObject(v)
    THEN LET partDesc == Or(Field(v, "description"), T("VALUE"))
             isRange == ~startsWith(partDesc, T("("))
         IN ExecuteOn(side) \o <<"--", " Add partition to match ", other, NL>>
            \o AlterTable(tableNameOf(d)) \o T(" ADD PARTITION (PARTITION ")
            \o Bt(d.sub_object_name)
            \o (IF isRange THEN T(" VALUES LESS THAN (") \o partDesc \o T("));")
                ELSE T(" VALUES IN ") \o partDesc \o T(");"))
    ELSE ExecuteOn(side) \o AlterTable(tableNameOf(d)) \o T(" ADD PARTITION (PARTITION ")
         \o Bt(d.sub_object_name) \o T(" VALUES LESS THAN (...));")

\* DifferenceDetail.tsx:640-646
option1PartitionMissingTarget(d) ==
    IF d.sub_object_name = ALL_PARTITIONS
    THEN ExecuteOn("SOURCE") \o Note(" Remove partitioning from table")
         \o AlterTable(tableNameOf(d)) \o T(" REMOVE PARTITIONING;")
    ELSE ExecuteOn("SOURCE") \o Note(" Drop partition to match target")
         \o AlterTable(tableNameOf(d)) \o T(" DROP PARTITION ") \o Bt(d.sub_object_name)
         \o T(";")

\* DifferenceDetail.tsx:965-1001
option2PartitionMissingTarget(d) ==
    IF d.sub_object_name = ALL_PARTITIONS
    THEN addPartitioning("TARGET", d, d.source_value)
    ELSE addPartition("TARGET", d, d.source_value, "source")

\* DifferenceDetail.tsx:648-684
option1PartitionMissingSource(d) ==
    IF d.sub_object_name = ALL_PARTITIONS
    THEN addPartitioning("SOURCE", d, d.target_value)
    ELSE addPartition("SOURCE", d, d.target_value, "target")

\* DifferenceDetail.tsx:1003-1009
option2PartitionMissingSource(d) ==
    IF d.sub_object_name = ALL_PARTITIONS
    THEN ExecuteOn("TARGET") \o Note(" Remove partitioning from table")
         \o AlterTable(tableNameOf(d)) \o T(" REMOVE PARTITIONING;")
    ELSE ExecuteOn("TARGET") \o Note(" Drop partition to match source")
         \o Note(" WARNING: This will DELETE all data in the partition!")
         \o AlterTable(tableNameOf(d)) \o T(" DROP PARTITION ") \o Bt(d.sub_object_name)
         \o T(";")

PARTITION_METHOD == T("partition_method")
PARTITION_EXPRESSION == T("partition_expression")

\* DifferenceDetail.tsx:689 (and :1014)
requiresRebuild(sub_object_name) ==
    sub_object_name = PARTITION_METHOD \/ sub_object_name = PARTITION_EXPRESSION

\* DifferenceDetail.tsx:686-696
option1PartitionDefinitionChanged(d) ==
    IF requiresRebuild(d.sub_object_name)
    THEN ExecuteOn("SOURCE")
         \o <<"--", " Changing ">> \o d.sub_object_name \o <<" requires table rebuild", NL>>
         \o <<"--", " From: ">> \o String(d.source_value) \o <<NL>>
         \o <<"--", " To: ">> \o String(d.target_value) \o <<NL>>
         \o <<"--", " This requires exporting data and recreating the table">>
    ELSE IF isTruthyObject(d.target_value)
    THEN LET targetDesc == Or(Field(d.target_value, "description"), T("VALUE")) IN
         ExecuteOn("SOURCE") \o Note(" Reorganize partition to match target")
         \o AlterTable(tableNameOf(d)) \o T(" REORGANIZE PARTITION ")
         \o Bt(d.sub_object_name) \o T(" INTO (") \o <<NL>> \o T("  PARTITION ")
         \o Bt(d.sub_object_name) \o T(" VALUES LESS THAN (") \o targetDesc \o T(")")
         \o <<NL>> \o T(");")
    ELSE ExecuteOn("SOURCE") \o Note(" Reorganize partition")
         \o AlterTable(tableNameOf(d)) \o T(" REORGANIZE PARTITION ")
         \o Bt(d.sub_object_name) \o T(" INTO (...);")

\* DifferenceDetail.tsx:1011-1021
option2PartitionDefinitionChanged(d) ==
    IF requiresRebuild(d.sub_object_name)
    THEN ExecuteOn("TARGET")
         \o <<"--", " Changing ">> \o d.sub_object_name \o <<" requires table rebuild", NL>>
         \o <<"--", " From: ">> \o String(d.target_value) \o <<NL>>
         \o <<"--", " To: ">> \o String(d.source_value) \o <<NL>>
         \o <<"--", " This requires exporting data and recreating the table">>
    ELSE IF isTruthyObject(d.source_value)
    THEN LET sourceDesc == Or(Field(d.source_value, "description"), T("VALUE")) IN
         ExecuteOn("TARGET") \o Note(" Reorganize partition to match source")
         \o AlterTable(tableNameOf(d)) \o T(" REORGANIZE PARTITION ")
         \o Bt(d.sub_object_name) \o T(" INTO (") \o <<NL>> \o T("  PARTITION ")
         \o Bt(d.sub_object_name) \o T(" VALUES LESS THAN (") \o sourceDesc \o T(")")
         \o <<NL>> \o T(");")
    ELSE ExecuteOn("TARGET") \o Note(" Reorganize partition")
         \o AlterTable(tableNameOf(d)) \o T(" REORGANIZE PARTITION ")
         \o Bt(d.sub_object_name) \o T(" INTO (...);")

-----------------------------------------------------------------------------
(* The two generators *)

\* a mutant: a difference with no rule yields a statement
option1Default_statement(d) ==
    ExecuteOn("SOURCE") \o T("ALTER TABLE ") \o tableNameOf(d) \o T(";")

\* DifferenceDetail.tsx:698-700
option1Default(d) ==
    <<"--", " Forward SQL for ", d.diff_type, " will be generated in sync script">>

\* DifferenceDetail.tsx:1023-1025
option2Default(d) ==
    <<"--", " Rollback SQL for ", d.diff_type, " will be generated in sync script">>

\* DifferenceDetail.tsx:411-701: the statement that makes SOURCE like TARGET
generateOption1SQL(d) ==
    CASE d.diff_type = "column_added" -> option1ColumnAdded(d)
      [] d.diff_type = "column_removed" -> option1ColumnRemoved(d)
      [] d.diff_type = "column_type_changed" -> option1ColumnTypeChanged(d)
      [] d.diff_type = "column_nullable_changed" -> option1ColumnNullableChanged(d)
      [] d.diff_type = "column_default_changed" -> option1ColumnDefaultChanged(d)
      [] d.diff_type = "column_extra_changed" -> option1ColumnExtraChanged(d)
      [] d.diff_type = "column_renamed" -> option1ColumnRenamed(d)
      [] d.diff_type = "index_missing_target" -> option1IndexMissingTarget(d)
      [] d.diff_type = "index_missing_source" -> option1IndexMissingSource(d)
      [] d.diff_type = "index_renamed" -> option1IndexRenamed(d)
      [] d.diff_type = "index_duplicate_source" -> option1IndexDuplicateSource(d)
      [] d.diff_type = "index_duplicate_target" -> option1IndexDuplicateTarget(d)
      [] d.diff_type = "constraint_missing_target" -> option1ConstraintMissingTarget(d)
      [] d.diff_type = "constraint_missing_source" -> option1ConstraintMissingSource(d)
      [] d.diff_type = "constraint_renamed" -> option1ConstraintRenamed(d)
      [] d.diff_type = "table_missing_target" -> option1TableMissingTarget(d)
      [] d.diff_type = "table_missing_source" -> option1TableMissingSource(d)
      [] d.diff_type = "partition_missing_target" -> option1PartitionMissingTarget(d)
      [] d.diff_type = "partition_missing_source" -> option1PartitionMissingSource(d)
      [] d.diff_type = "partition_definition_changed" -> option1PartitionDefinitionChanged(d)
      [] OTHER -> option1Default(d)

\* DifferenceDetail.tsx:739-1026: the statement that makes TARGET like SOURCE
generateOption2SQL(d) ==
    CASE d.diff_type = "column_added" -> option2ColumnAdded(d)
      [] d.diff_type = "column_removed" -> option2ColumnRemoved(d)
      [] d.diff_type = "column_type_changed" -> option2ColumnTypeChanged(d)
      [] d.diff_type = "column_nullable_changed" -> option2ColumnNullableChanged(d)
      [] d.diff_type = "column_default_changed" -> option2ColumnDefaultChanged(d)
      [] d.diff_type = "column_extra_changed" -> option2ColumnExtraChanged(d)
      [] d.diff_type = "column_renamed" -> option2ColumnRenamed(d)
      [] d.diff_type = "index_missing_target" -> option2IndexMissingTarget(d)
      [] d.diff_type = "index_missing_source" -> option2IndexMissingSource(d)
      [] d.diff_type = "index_renamed" -> option2IndexRenamed(d)
      [] d.diff_type = "index_duplicate_source" -> option2IndexDuplicateSource(d)
      [] d.diff_type = "index_duplicate_target" -> option2IndexDuplicateTarget(d)
      [] d.diff_type = "constraint_missing_target" -> option2ConstraintMissingTarget(d)
      [] d.diff_type = "constraint_missing_source" -> option2ConstraintMissingSource(d)
      [] d.diff_type = "constraint_renamed" -> option2ConstraintRenamed(d)
      [] d.diff_type = "table_missing_target" -> option2TableMissingTarget(d)
      [] d.diff_type = "table_missing_source" -> option2TableMissingSource(d)
      [] d.diff_type = "partition_missing_target" -> option2PartitionMissingTarget(d)
      [] d.diff_type = "partition_missing_source" -> option2PartitionMissingSource(d)
      [] d.diff_type = "partition_definition_changed" -> option2PartitionDefinitionChanged(d)
      [] OTHER -> option2Default(d)

-----------------------------------------------------------------------------
(* The earlier copy of the component: its column_type_changed rules *)

\* part_011:247-251 (and :382-386): the attributes the earlier rule keeps
legacyColumnDefinition(col) ==
    LET columnType == Or(col.column_type, col.data_type)
        nullable == IF col.is_nullable # "undefined"
                    THEN (IF col.is_nullable = "true" THEN T("NULL") ELSE T("NOT NULL"))
                    ELSE <<>>
        defaultValue == IF truthy(col.column_default)
                        THEN T(" DEFAULT ") \o String(col.column_default) ELSE <<>>
        extra == IF col.extra # <<>> THEN T(" ") \o col.extra ELSE <<>>
    IN columnType \o T(" ") \o nullable \o defaultValue \o extra

LegacyModifyColumn(d, definition) ==
    AlterTable(tableNameOf(d)) \o T(" MODIFY COLUMN ") \o columnNameOf(d) \o T(" ")
    \o definition \o T(";")

\* part_011:238-255
legacyOption1ColumnTypeChanged(d) ==
    LET v == d.target_value IN
    IF truthy(v) /\ v.kind = "string"
    THEN LegacyModifyColumn(d, v.chars)
    ELSE IF truthy(v) /\ Or(Field(v, "column_type"), Field(v, "data_type")) # <<>>
    THEN LegacyModifyColumn(d, legacyColumnDefinition(v))
    ELSE <<"--", " Unable to determine target column type">>

\* part_011:373-390
legacyOption2ColumnTypeChanged(d) ==
    LET v == d.source_value IN
    IF truthy(v) /\ v.kind = "string"
    THEN LegacyModifyColumn(d, v.chars)
    ELSE IF truthy(v) /\ Or(Field(v, "column_type"), Field(v, "data_type")) # <<>>
    THEN LegacyModifyColumn(d, legacyColumnDefinition(v))
    ELSE <<"--", " Unable to determine source column type">>

-----------------------------------------------------------------------------
(* The differences the generators are run on *)

\* the characters default values and comments are drawn from
Alphabet == {"a", QT, BS}

RECURSIVE StringsUpTo(_)
StringsUpTo(n) ==
    IF n = 0 THEN {<<>>}
    ELSE LET shorter == StringsUpTo(n - 1) IN
         shorter \cup {Append(t, c) : t \in {u \in shorter : Len(u) = n - 1}, c \in Alphabet}

OBRIEN == <<"O", QT, "B", "r", "i", "e", "n">>
PENDING == <<"p", "e", "n", "d", "i", "n", "g">>

SampleStrings ==
    StringsUpTo(MaxLen)
    \cup {CURRENT_TIMESTAMP, toLowerCase(CURRENT_TIMESTAMP), CURRENT_DATE, NULLWORD, OBRIEN}

DefaultValues == {Undefined, Null} \cup {Str(t) : t \in SampleStrings}

CommentValues == StringsUpTo(MaxLen) \cup {PENDING}

\* the attribute bag of a column, as the comparison reports it
Column(column_type, is_nullable, column_default, extra, comment, character_set) ==
    [kind |-> "object", column_type |-> column_type, data_type |-> T("int"),
     is_nullable |-> is_nullable, column_default |-> column_default,
     character_set |-> character_set,
     collation |-> IF character_set # <<>> THEN character_set \o T("_bin") ELSE <<>>,
     extra |-> extra, comment |-> comment]

ColumnBags ==
    {Column(T("int(11)"), "false", dv, <<>>, cv, <<>>) :
        dv \in DefaultValues, cv \in CommentValues}
    \cup {Column(T("varchar(20)"), "true", Str(PENDING), T("on update CURRENT_TIMESTAMP"),
                 PENDING, T("utf8mb4")),
          Column(<<>>, "undefined", Undefined, T("auto_increment"), <<>>, <<>>)}

PrimitiveValues ==
    {Undefined, Null, Bool(TRUE), Bool(FALSE)} \cup {Str(t) : t \in SampleStrings}

ColumnValues == ColumnBags \cup PrimitiveValues

\* what the side that is not authoritative may hold
OtherColumnValues ==
    {Undefined, Str(T("bigint")),
     Column(T("bigint"), "true", Str(T("other")), T("auto_increment"), T("other side"),
            T("latin1"))}

Diff(diff_type, sub_object_name, source_value, target_value, source_display, target_display) ==
    [diff_type |-> diff_type, schema_name |-> T("shop"), object_name |-> T("orders"),
     sub_object_name |-> sub_object_name,
     source_value |-> source_value, target_value |-> target_value,
     source_display_value |-> source_display, target_display_value |-> target_display]

ColumnDiffTypes ==
    {"column_added", "column_removed", "column_type_changed", "column_nullable_changed",
     "column_default_changed", "column_extra_changed", "column_renamed"}

ColumnValuePairs ==
    (ColumnValues \X OtherColumnValues) \cup (OtherColumnValues \X ColumnValues)

ColumnDifferences ==
    {Diff(t, T("status"), p[1], p[2], <<>>, <<>>) : t \in ColumnDiffTypes, p \in ColumnValuePairs}
    \cup {Diff("column_renamed", T("status"), p[1], p[2], T("status"), T("state")) :
             p \in ColumnValuePairs}

Index(is_unique, columns, index_type) ==
    [kind |-> "object", is_unique |-> is_unique, columns |-> columns,
     index_type |-> index_type, index_name |-> T("idx_state")]

IndexValues ==
    {Undefined,
     Index("false", Arr(<<T("status"), T("id")>>), T("BTREE")),
     Index("true", Str(T("status")), T("HASH")),
     Index("false", Undefined, <<>>)}

IndexDiffTypes ==
    {"index_missing_target", "index_missing_source", "index_renamed",
     "index_duplicate_source", "index_duplicate_target"}

IndexDifferences ==
    {Diff(t, T("idx_status"), sv, tv, <<>>, <<>>) :
        t \in IndexDiffTypes, sv \in IndexValues, tv \in IndexValues}
    \cup {Diff("index_renamed", T("idx_status"),
               [sv EXCEPT !.index_name = T("idx_status")], tv, <<>>, <<>>) :
             sv \in IndexValues \ {Undefined}, tv \in IndexValues}

Constraint(constraint_type, columns) ==
    [kind |-> "object", constraint_type |-> constraint_type,
     constraint_name |-> T("fk_customer"), columns |-> columns,
     referenced_table_schema |-> T("shop"), referenced_table_name |-> T("customers"),
     referenced_columns |-> IF constraint_type = T("FOREIGN KEY")
                            THEN Arr(<<T("id")>>) ELSE Undefined,
     update_rule |-> IF columns.kind = "array" THEN T("CASCADE") ELSE <<>>,
     delete_rule |-> <<>>,
     check_clause |-> IF columns.kind = "array" THEN T("total >= 0") ELSE <<>>]

ConstraintValues ==
    {Undefined}
    \cup {Constraint(ct, cols) :
             ct \in {T("PRIMARY KEY"), T("FOREIGN KEY"), T("UNIQUE"), T("CHECK"), <<>>},
             cols \in {Undefined, Arr(<<T("customer_id")>>)}}

ConstraintDiffTypes ==
    {"constraint_missing_target", "constraint_missing_source", "constraint_renamed"}

ConstraintDifferences ==
    {Diff(t, T("fk_buyer"), sv, tv, <<>>, <<>>) :
        t \in ConstraintDiffTypes, sv \in ConstraintValues,
        tv \in {Undefined, Constraint(T("UNIQUE"), Undefined),
                Constraint(T("FOREIGN KEY"), Arr(<<T("customer_id")>>))}}
    \cup {Diff(t, T("fk_buyer"), Undefined, tv, <<>>, <<>>) :
             t \in ConstraintDiffTypes, tv \in ConstraintValues}
    \cup {Diff("constraint_renamed", T("fk_buyer"),
               [sv EXCEPT !.constraint_name = T("fk_buyer")], tv, <<>>, <<>>) :
             sv \in ConstraintValues \ {Undefined}, tv \in ConstraintValues}

\* a column of a table, with its place and its key
TableColumn(name, ordinal_position, column_key, column_default) ==
    [name |-> name,
     info |-> [kind |-> "object", column_type |-> T("int(11)"), data_type |-> T("int"),
               is_nullable |-> IF column_key = "PRI" THEN "false" ELSE "true",
               column_default |-> column_default,
               extra |-> IF column_key = "PRI" THEN T("auto_increment") ELSE <<>>,
               ordinal_position |-> ordinal_position, column_key |-> column_key]]

Table(columns, engine) ==
    [kind |-> "object", columns |-> columns, engine |-> engine,
     collation |-> IF engine # <<>> THEN T("utf8mb4_bin") ELSE <<>>]

TableValues ==
    {Undefined, Table(<<>>, <<>>),
     Table(<<TableColumn(T("note"), 2, "", Str(OBRIEN)),
             TableColumn(T("id"), 1, "PRI", Undefined)>>, T("MyISAM")),
     Table(<<TableColumn(T("id"), 1, "", Str(CURRENT_TIMESTAMP))>>, <<>>)}

TableDifferences ==
    {Diff(t, <<>>, sv, tv, <<>>, <<>>) :
        t \in {"table_missing_target", "table_missing_source"},
        sv \in TableValues, tv \in TableValues}

Partition(name, ordinal_position, description) ==
    [name |-> name,
     info |-> [kind |-> "object", ordinal_position |-> ordinal_position,
               description |-> description]]

Partitioning(partition_method, partitions) ==
    [kind |-> "object", partition_method |-> partition_method,
     partition_expression |-> T("YEAR(created)"), partitions |-> partitions,
     description |-> <<>>]

PartitionValue(description) ==
    [kind |-> "object", description |-> description,
     partition_method |-> <<>>, partition_expression |-> <<>>, partitions |-> <<>>]

\* the partition methods, and the partition expressions, which are the text
\* of the table's definition and may run over several lines
MethodValues == {Undefined, Str(T("RANGE")), Str(T("HASH"))}

ExpressionValues ==
    {Undefined, Str(T("YEAR(created)")),
     Str(<<"T", "O", "_", "D", "A", "Y", "S", "(", NL, "c", ")">>),
     PartitionValue(T("2024"))}

PartitionValues ==
    {Undefined,
     Partitioning(T("LIST"), <<Partition(T("p1"), 2, T("(3,4)")),
                               Partition(T("p0"), 1, T("(1,2)"))>>),
     Partitioning(<<>>, <<Partition(T("p0"), 1, T("2024"))>>),
     Partitioning(T("RANGE"), <<>>),
     PartitionValue(<<"(", "1", ",", "2", ")">>),
     PartitionValue(T("2024")),
     PartitionValue(<<>>),
     Arr(<<T("p0")>>)}

PartitionDiffTypes ==
    {"partition_missing_target", "partition_missing_source", "partition_definition_changed"}

PartitionDifferences ==
    {Diff(t, sub, sv, tv, <<>>, <<>>) :
        t \in PartitionDiffTypes, sub \in {ALL_PARTITIONS, T("p0")},
        sv \in PartitionValues, tv \in {Undefined, PartitionValue(T("2025"))}}
    \cup {Diff(t, sub, sv, tv, <<>>, <<>>) :
        t \in PartitionDiffTypes, sub \in {ALL_PARTITIONS, T("p0")},
        sv \in {Undefined, PartitionValue(T("2025"))}, tv \in PartitionValues}
    \cup {Diff("partition_definition_changed", PARTITION_METHOD, sv, tv, <<>>, <<>>) :
        sv \in MethodValues, tv \in MethodValues}
    \cup {Diff("partition_definition_changed", PARTITION_EXPRESSION, sv, tv, <<>>, <<>>) :
        sv \in ExpressionValues, tv \in ExpressionValues}

\* diff types the comparison reports and the generators have no rule for
NoRuleDiffTypes ==
    {"schema_missing_source", "schema_missing_target", "index_columns_changed",
     "index_type_changed", "index_unique_changed", "constraint_definition_changed",
     "routine_missing_source", "routine_missing_target", "routine_definition_changed",
     "view_missing_source", "view_missing_target", "view_definition_changed",
     "trigger_missing_source", "trigger_missing_target", "trigger_definition_changed"}

NoRuleDifferences ==
    {Diff(t, sub, sv, tv, <<>>, <<>>) :
        t \in NoRuleDiffTypes, sub \in {<<>>, T("v_orders")},
        sv \in {Undefined, Null, Str(T("SELECT 1"))}, tv \in {Undefined, Str(T("SELECT 2"))}}

Differences ==
    ColumnDifferences \cup IndexDifferences \cup ConstraintDifferences
    \cup TableDifferences \cup PartitionDifferences \cup NoRuleDifferences

-----------------------------------------------------------------------------
(* Reading the generated text *)

\* the text up to its first newline, and the text after it
RECURSIVE firstLine(_)
firstLine(text) ==
    IF text = <<>> \/ Head(text) = NL THEN <<>>
    ELSE <<Head(text)>> \o firstLine(Tail(text))

RECURSIVE afterFirstLine(_)
afterFirstLine(text) ==
    IF text = <<>> THEN <<>>
    ELSE IF Head(text) = NL THEN Tail(text)
    ELSE afterFirstLine(Tail(text))

hasNewline(text) == \E i \in 1..Len(text) : text[i] = NL

\* text.split('\n')
RECURSIVE lines(_)
lines(text) ==
    IF hasNewline(text) THEN <<firstLine(text)>> \o lines(afterFirstLine(text))
    ELSE <<text>>

RECURSIVE skipBlank(_)
skipBlank(line) ==
    IF line # <<>> /\ (Head(line) = " " \/ Head(line) = "  ")
    THEN skipBlank(Tail(line)) ELSE line

\* a line SQL reads as a comment: it starts with the comment leader
isCommentLine(line) == skipBlank(line) # <<>> /\ Head(skipBlank(line)) = "--"

isBlankLine(line) == skipBlank(line) = <<>>

\* the lines the database would execute
executableLines(text) ==
    SelectSeq(lines(text), LAMBDA l : ~isCommentLine(l) /\ ~isBlankLine(l))

\* the text holds the clause somewhere
contains(text, clause) == includes(text, clause)

-----------------------------------------------------------------------------
(* ComparisonResults: the state of the component and the calls it makes *)

\* analyses awaited at once
MaxInFlight == 2
\* comparisons shown one after the other, each by a fresh ComparisonResults
MaxInstances == 2

SOURCE_TO_TARGET == "source_to_target"
TARGET_TO_SOURCE == "target_to_source"
Directions == {SOURCE_TO_TARGET, TARGET_TO_SOURCE}
RiskLevels == {"low", "high"}

\* the filters argument left out: `...undefined` adds nothing to the body
NoFilters == "none"

\* A script text stands for what it was generated from.
NoScript == [comparison_id |-> 0, direction |-> "none", filters |-> "none"]
NoAnalysis == [script |-> NoScript, target_database |-> "none", risk_level |-> "none"]

\* a mutant: the direction asked for is not sent
generateSyncScript_noDirection(comparisonId, direction, filters) ==
    [comparison_id |-> comparisonId, direction |-> SOURCE_TO_TARGET, filters |-> filters]

\* api.ts:60-73: the request POSTed to /sync/{comparisonId}/generate
generateSyncScript(comparisonId, direction, filters) ==
    [comparison_id |-> comparisonId,
     direction |-> IF direction # "undefined" THEN direction ELSE SOURCE_TO_TARGET,
     filters |-> filters]

\* api.ts:92-102: the request POSTed to /sync/{comparisonId}/analyze
analyzeScript(comparisonId, script, targetDatabase) ==
    [comparison_id |-> comparisonId, script |-> script, target_database |-> targetDatabase]

\* api.ts:104-114: the request POSTed to /sync/{comparisonId}/execute
executeScript(comparisonId, script, targetDatabase) ==
    [comparison_id |-> comparisonId, script |-> script, target_database |-> targetDatabase]

\* the generator behind /generate: the script of the tuple asked for
GeneratedScript(body) ==
    [comparison_id |-> body.comparison_id, direction |-> body.direction,
     filters |-> body.filters]

\* the analyzer behind /analyze: the risk report of a script
RiskReport(body, risk) ==
    [script |-> body.script, target_database |-> body.target_database,
     risk_level |-> risk[body.script.direction]]

\* the acknowledgement flag of an execute request, false when left out
Acknowledged(body) == "acknowledged" \in DOMAIN body /\ body.acknowledged

\* the executor behind /execute: a high-risk script runs only when acknowledged
ExecutorOutcomes(body, risk) ==
    IF risk[body.script.direction] = "high" /\ ~Acknowledged(body)
    THEN {"refused"}
    ELSE {"success", "failure"}

\* part_009:256-272: the state a ComparisonResults starts in
InitialState(comparisonId) ==
    [comparisonId |-> comparisonId, result |-> "loading", activeTab |-> "summary",
     generatingScript |-> FALSE, syncDirection |-> SOURCE_TO_TARGET,
     scriptCache |-> [d \in Directions |-> NoScript],
     showExecuteDialog |-> FALSE, scriptAnalysis |-> NoAnalysis,
     executing |-> FALSE, executeResult |-> "none"]

\* part_009:326
currentScript(u) == u.scriptCache[u.syncDirection]

\* part_009:329-331
getTargetDatabase(u) == IF u.syncDirection = SOURCE_TO_TARGET THEN "target" ELSE "source"

\* part_009:596: the dialog and its overlay are on screen
dialogVisible(u) == u.showExecuteDialog /\ u.scriptAnalysis # NoAnalysis

\* the page behind the dialog can be clicked
pageVisible(u) == u.result \in {"empty", "diffs"} /\ ~dialogVisible(u)

NoRequests == [generate |-> {}, analyze |-> {}, execute |-> {}]

-----------------------------------------------------------------------------
(* ComparisonProgress: the effect that watches a running comparison, and    *)
(* the page's onComplete.  One record holds the closure of the effect       *)
(* (pollInterval, isCleanedUp, ws), the calls and timers it has outstanding *)
(* and the status the comparison has on the server.                         *)

\* statements of a script
MaxStatements == 3
\* status polls awaiting their answer at once
MaxPolls == 2
\* the instants Date.now() takes while the task API is observed
MaxClock == 2

NoTimers == [withResult |-> 0, withoutResult |-> 0]

\* no ComparisonProgress on the page
NotMounted ==
    [view |-> "none", server |-> "none", isCleanedUp |-> TRUE, pollInterval |-> FALSE,
     initialCheck |-> FALSE, polls |-> 0, results |-> 0, timers |-> NoTimers,
     ws |-> "none", wsInFlight |-> {}, status |-> "running", progressShown |-> FALSE,
     completions |-> 0]

-----------------------------------------------------------------------------
(* The sync engine: the executor, the risk analyzer and the script          *)
(* generator behind /sync/{id}/execute, /analyze and /generate.             *)

\* no run of the engine
Idle == [kind |-> "idle"]
\* the task API not running
NotStarted == [kind |-> "stopped"]
\* none of the other components in use
NoPanel == [kind |-> "none"]

-----------------------------------------------------------------------------
(* SpecGen: DifferenceDetail shows one difference *)

NotRendered == T("!not rendered")

\* backend.last: what the executor did with the last request it got;
\* backend.executed_statements: the statements that run applied
NoExecution == "none"

InitBackend ==
    [risk |-> [d \in Directions |-> "low"], last |-> NoExecution,
     executed_statements |-> 0]

InitGen ==
    /\ difference \in Differences
    /\ option1 = NotRendered
    /\ option2 = NotRendered
    /\ legacyOption1 = NotRendered
    /\ legacyOption2 = NotRendered
    /\ clipboard = NotRendered
    /\ ui = InitialState(1)
    /\ net = NoRequests
    /\ backend = InitBackend
    /\ progress = NotMounted
    /\ syncEngine = Idle
    /\ taskApi = NotStarted
    /\ panel = NoPanel

\* DifferenceDetail.tsx:1121 and :1154: the component renders both texts; a
\* generator that throws fails the render
Render ==
    /\ option1 = NotRendered
    /\ LET text1 == generateOption1SQL(difference)
           text2 == generateOption2SQL(difference)
           failed == text1 = Threw \/ text2 = Threw
       IN /\ option1' = IF failed THEN Threw ELSE text1
          /\ option2' = IF failed THEN Threw ELSE text2
    /\ UNCHANGED <<difference, legacyOption1, legacyOption2, clipboard, ui, net, backend>>
    /\ UNCHANGED outerVars

\* DifferenceDetail.tsx:1107: copyToClipboard(generateOption1SQL())
CopyOption1 ==
    /\ option1 # NotRendered
    /\ option1 # Threw
    /\ clipboard' = generateOption1SQL(difference)
    /\ UNCHANGED <<difference, option1, option2, legacyOption1, legacyOption2, ui, net,
                   backend>>
    /\ UNCHANGED outerVars

\* DifferenceDetail.tsx:1140: copyToClipboard(generateOption2SQL())
CopyOption2 ==
    /\ option2 # NotRendered
    /\ option2 # Threw
    /\ clipboard' = generateOption2SQL(difference)
    /\ UNCHANGED <<difference, option1, option2, legacyOption1, legacyOption2, ui, net,
                   backend>>
    /\ UNCHANGED outerVars

\* part_011:533 and :553: the earlier copy of the component renders a
\* column_type_changed difference
LegacyRender ==
    /\ difference.diff_type = "column_type_changed"
    /\ legacyOption1 = NotRendered
    /\ legacyOption1' = legacyOption1ColumnTypeChanged(difference)
    /\ legacyOption2' = legacyOption2ColumnTypeChanged(difference)
    /\ UNCHANGED <<difference, option1, option2, clipboard, ui, net, backend>>
    /\ UNCHANGED outerVars

NextGen == Render \/ CopyOption1 \/ CopyOption2 \/ LegacyRender

SpecGen == InitGen /\ [][NextGen]_vars

-----------------------------------------------------------------------------
(* Spec: ComparisonResults and the sync endpoints *)

Init ==
    /\ difference = Diff("column_added", T("status"), Undefined, Undefined, <<>>, <<>>)
    /\ option1 = NotRendered
    /\ option2 = NotRendered
    /\ legacyOption1 = NotRendered
    /\ legacyOption2 = NotRendered
    /\ clipboard = NotRendered
    /\ ui = InitialState(1)
    /\ net = NoRequests
    /\ backend \in [risk : [Directions -> RiskLevels], last : {NoExecution},
                    executed_statements : {0}]
    /\ progress = NotMounted
    /\ syncEngine = Idle
    /\ taskApi = NotStarted
    /\ panel = NoPanel

\* part_009:278-287 loadResults
LoadResults(outcome) ==
    /\ ui.result = "loading"
    /\ ui' = [ui EXCEPT !.result = outcome]
    /\ UNCHANGED <<net, backend>> /\ UNCHANGED genVars
    /\ UNCHANGED outerVars

\* part_009:461 the tab buttons
SetActiveTab(tab) ==
    /\ pageVisible(ui)
    /\ ui' = [ui EXCEPT !.activeTab = tab]
    /\ UNCHANGED <<net, backend>> /\ UNCHANGED genVars
    /\ UNCHANGED outerVars

\* part_009:289-323 handleGenerateSyncScript, up to its await
ClickGenerate(direction) ==
    /\ pageVisible(ui)
    /\ ui.activeTab = "sync"
    /\ ~ui.generatingScript
    /\ ui.result = "diffs"
    /\ IF ui.scriptCache[direction] # NoScript
       THEN /\ ui' = [ui EXCEPT !.syncDirection = direction, !.activeTab = "sync"]
            /\ net' = net
       ELSE /\ ui' = [ui EXCEPT !.generatingScript = TRUE, !.syncDirection = direction]
            /\ net' = [net EXCEPT !.generate = @ \cup
                         {[from |-> ui.comparisonId, direction |-> direction,
                           body |-> generateSyncScript(ui.comparisonId, direction, NoFilters)]}]
    /\ UNCHANGED backend /\ UNCHANGED genVars
    /\ UNCHANGED outerVars

\* part_009:305-322: the request returns
GenerateResponse(r, ok) ==
    /\ r \in net.generate
    /\ net' = [net EXCEPT !.generate = @ \ {r}]
    /\ IF ok
       THEN ui' = [ui EXCEPT !.scriptCache[r.direction] = GeneratedScript(r.body),
                             !.activeTab = "sync", !.generatingScript = FALSE]
       ELSE ui' = [ui EXCEPT !.generatingScript = FALSE]
    /\ UNCHANGED backend /\ UNCHANGED genVars
    /\ UNCHANGED outerVars

\* part_009:333-340 handleApplyScript, up to its await
ClickApply ==
    /\ pageVisible(ui)
    /\ ui.activeTab = "sync"
    /\ currentScript(ui) # NoScript
    /\ \E slot \in 1..MaxInFlight :
          /\ \A q \in net.analyze : q.slot # slot
          /\ net' = [net EXCEPT !.analyze = @ \cup
                       {[from |-> ui.comparisonId, slot |-> slot,
                         body |-> analyzeScript(ui.comparisonId, currentScript(ui),
                                                getTargetDatabase(ui))]}]
    /\ UNCHANGED <<ui, backend>> /\ UNCHANGED genVars
    /\ UNCHANGED outerVars

\* part_009:340-347: the analysis returns
AnalyzeResponse(r, ok) ==
    /\ r \in net.analyze
    /\ net' = [net EXCEPT !.analyze = @ \ {r}]
    /\ IF ok
       THEN ui' = [ui EXCEPT !.scriptAnalysis = RiskReport(r.body, backend.risk),
                             !.executeResult = "none", !.showExecuteDialog = TRUE]
       ELSE ui' = ui
    /\ UNCHANGED backend /\ UNCHANGED genVars
    /\ UNCHANGED outerVars

\* a variant: the button is not disabled while a run is awaited
ClickConfirm_whileExecuting ==
    /\ dialogVisible(ui)
    /\ ui.executeResult = "none"
    /\ currentScript(ui) # NoScript
    /\ ui' = [ui EXCEPT !.executing = TRUE]
    /\ net' = [net EXCEPT !.execute = @ \cup
                 {[from |-> ui.comparisonId, shown |-> ui.scriptAnalysis,
                   body |-> executeScript(ui.comparisonId, currentScript(ui),
                                          ui.scriptAnalysis.target_database)]}]
    /\ UNCHANGED backend /\ UNCHANGED genVars
    /\ UNCHANGED outerVars

\* part_009:352-357 handleConfirmExecute, up to its await.  The request is
\* kept with the report the dialog showed when it was sent.
ClickConfirm ==
    /\ dialogVisible(ui)
    /\ ui.executeResult = "none"
    /\ ~ui.executing
    /\ IF currentScript(ui) = NoScript
       THEN UNCHANGED <<ui, net>>
       ELSE /\ ui' = [ui EXCEPT !.executing = TRUE]
            /\ net' = [net EXCEPT !.execute = @ \cup
                         {[from |-> ui.comparisonId, shown |-> ui.scriptAnalysis,
                           body |-> executeScript(ui.comparisonId, currentScript(ui),
                                                  ui.scriptAnalysis.target_database)]}]
    /\ UNCHANGED backend /\ UNCHANGED genVars
    /\ UNCHANGED outerVars

\* execResult.executed_statements: a refused run applies nothing; a run
\* reports failure when a statement failed, whatever the others did
ExecutedStatements(outcome) ==
    IF outcome = "refused" THEN {0} ELSE 0..MaxStatements

\* part_009:360-366: 'if (execResult.success) { ...; setScriptCache({}) }'
clearsCache(outcome) == outcome = "success"

\* part_009:357-375: the executor answers
ExecuteResponse(r, outcome) ==
    /\ r \in net.execute
    /\ outcome \in ExecutorOutcomes(r.body, backend.risk)
    /\ net' = [net EXCEPT !.execute = @ \ {r}]
    /\ \E n \in ExecutedStatements(outcome) :
          backend' = [backend EXCEPT !.last = outcome, !.executed_statements = n]
    /\ IF outcome \in {"success", "failure"}
       THEN ui' = [ui EXCEPT !.executeResult = outcome,
                             !.scriptCache = IF clearsCache(outcome)
                                             THEN [d \in Directions |-> NoScript]
                                             ELSE @,
                             !.executing = FALSE]
       ELSE ui' = [ui EXCEPT !.executing = FALSE]
    /\ UNCHANGED genVars
    /\ UNCHANGED outerVars

\* part_009:761-765 Cancel / Close
CloseDialog ==
    /\ dialogVisible(ui)
    /\ ui' = [ui EXCEPT !.showExecuteDialog = FALSE, !.scriptAnalysis = NoAnalysis,
                        !.executeResult = "none"]
    /\ UNCHANGED <<net, backend>> /\ UNCHANGED genVars
    /\ UNCHANGED outerVars

\* page.tsx:75-78 and :161-166: the results of another comparison are shown
\* by a new ComparisonResults.  What the old one awaited finds it unmounted
\* and sets no state, so its requests are left out from here on.
Remount ==
    /\ ui.comparisonId < MaxInstances
    /\ ui' = InitialState(ui.comparisonId + 1)
    /\ net' = NoRequests
    /\ UNCHANGED backend /\ UNCHANGED genVars
    /\ UNCHANGED outerVars

Next ==
    \/ \E outcome \in {"failed", "empty", "diffs"} : LoadResults(outcome)
    \/ \E tab \in {"summary", "differences", "sync"} : SetActiveTab(tab)
    \/ \E direction \in Directions : ClickGenerate(direction)
    \/ \E r \in net.generate, ok \in BOOLEAN : GenerateResponse(r, ok)
    \/ ClickApply
    \/ \E r \in net.analyze, ok \in BOOLEAN : AnalyzeResponse(r, ok)
    \/ ClickConfirm
    \/ \E r \in net.execute, outcome \in {"success", "failure", "refused"} :
          ExecuteResponse(r, outcome)
    \/ CloseDialog
    \/ Remount

Spec == Init /\ [][Next]_vars

-----------------------------------------------------------------------------
(* ComparisonProgress, continued: the handlers and SpecProgress *)

\* part_009:15-24 and :164-165: the state and the closure once the effect
\* has run startPolling() and connectWebSocket()
ProgressMounted ==
    [view |-> "progress", server |-> "running", isCleanedUp |-> FALSE, pollInterval |-> TRUE,
     initialCheck |-> TRUE, polls |-> 0, results |-> 0, timers |-> NoTimers,
     ws |-> "connecting", wsInFlight |-> {}, status |-> "running", progressShown |-> FALSE,
     completions |-> 0]

\* part_009:34-52, :67-85, :116-134: the comparison is seen completed, its
\* result is fetched
seenCompleted(p) == [p EXCEPT !.status = "completed", !.results = @ + 1]

\* a variant: a poll that throws stops the polling
onStatusResponse_errorStopsPolling(p, kind, response) ==
    IF response = "error" THEN [p EXCEPT !.pollInterval = FALSE]
    ELSE IF response = "completed"
    THEN seenCompleted([p EXCEPT !.pollInterval = IF kind = "interval" THEN FALSE ELSE @])
    ELSE p

\* part_009:30-58 (the check made at once) and :61-95 (the interval's
\* callback).  response is the status answered, or "error" when the call
\* throws; the check made at once acts on 'completed' alone.
onStatusResponse(p, kind, response) ==
    IF kind = "initial"
    THEN (IF response = "completed" THEN seenCompleted(p) ELSE p)
    ELSE CASE response = "completed" -> seenCompleted([p EXCEPT !.pollInterval = FALSE])
           [] response = "failed" -> [p EXCEPT !.pollInterval = FALSE, !.status = "failed"]
           [] OTHER -> p

\* part_009:108-147 ws.onmessage
onmessage(p, type) ==
    CASE type = "progress" -> [p EXCEPT !.progressShown = TRUE]
      [] type = "complete" -> seenCompleted([p EXCEPT !.pollInterval = FALSE])
      [] type = "error" -> [p EXCEPT !.pollInterval = FALSE, !.status = "failed"]
      [] OTHER -> p

\* part_009:168-177: the cleanup of the effect
cleanup(p) ==
    [p EXCEPT !.isCleanedUp = TRUE, !.pollInterval = FALSE,
              !.ws = IF @ = "open" THEN "closed" ELSE @]

\* a variant: the page keeps ComparisonProgress mounted after onComplete
handleComparisonComplete_staysMounted(p, result) ==
    [p EXCEPT !.view = IF result THEN "results" ELSE "setup", !.completions = @ + 1]

\* page.tsx:70-73 handleComparisonComplete, and :86-87, :152: without a
\* result the page shows the setup again; either way ComparisonProgress is
\* unmounted
handleComparisonComplete(p, result) ==
    cleanup([p EXCEPT !.view = IF result THEN "results" ELSE "setup",
                      !.completions = @ + 1])

\* the status endpoint: what the server answers
statusOf(p) == p.server

progressFrame == UNCHANGED <<genVars, uiVars, syncEngine, taskApi, panel>>

\* the comparison goes on and reports over the socket, when there is one
BackendProgress ==
    /\ progress.server = "running"
    /\ progress.ws = "open"
    /\ progress' = [progress EXCEPT !.wsInFlight = @ \cup {"progress"}]
    /\ progressFrame

\* the comparison ends
BackendEnds(how) ==
    /\ progress.server = "running"
    /\ progress' = [progress EXCEPT
          !.server = how,
          !.wsInFlight = IF progress.ws = "open"
                         THEN @ \cup {IF how = "completed" THEN "complete" ELSE "error"}
                         ELSE @]
    /\ progressFrame

\* part_009:61 setInterval(..., 1000) fires: getComparisonStatus is called
PollTick ==
    /\ progress.pollInterval
    /\ progress.polls < MaxPolls
    /\ progress' = [progress EXCEPT !.polls = @ + 1]
    /\ progressFrame

\* a status call is answered
StatusAnswered(kind) ==
    /\ IF kind = "initial" THEN progress.initialCheck ELSE progress.polls > 0
    /\ progress' = onStatusResponse(
                      IF kind = "initial" THEN [progress EXCEPT !.initialCheck = FALSE]
                      ELSE [progress EXCEPT !.polls = @ - 1],
                      kind, statusOf(progress))
    /\ progressFrame

\* a status call throws
StatusLost(kind) ==
    /\ IF kind = "initial" THEN progress.initialCheck ELSE progress.polls > 0
    /\ progress' = onStatusResponse(
                      IF kind = "initial" THEN [progress EXCEPT !.initialCheck = FALSE]
                      ELSE [progress EXCEPT !.polls = @ - 1],
                      kind, "error")
    /\ progressFrame

\* part_009:41-52: getComparisonResult returns or throws; either way
\* onComplete is put on a timer
ResultResponse(ok) ==
    /\ progress.results > 0
    /\ progress' = [progress EXCEPT
          !.results = @ - 1,
          !.timers = IF ok THEN [@ EXCEPT !.withResult = @ + 1]
                     ELSE [@ EXCEPT !.withoutResult = @ + 1]]
    /\ progressFrame

\* part_009:43-47: the timer fires; onComplete is called unless cleaned up
TimerFires(result) ==
    /\ IF result THEN progress.timers.withResult > 0 ELSE progress.timers.withoutResult > 0
    /\ LET p == [progress EXCEPT
                    !.timers = IF result THEN [@ EXCEPT !.withResult = @ - 1]
                               ELSE [@ EXCEPT !.withoutResult = @ - 1]]
       IN progress' = IF p.isCleanedUp THEN p ELSE handleComparisonComplete(p, result)
    /\ progressFrame

\* part_009:105-107 ws.onopen
WsOpen ==
    /\ progress.ws = "connecting"
    /\ progress' = [progress EXCEPT !.ws = "open"]
    /\ progressFrame

\* part_009:149-155: the socket fails or closes; nothing else is done
WsClose ==
    /\ progress.ws \in {"connecting", "open"}
    /\ progress' = [progress EXCEPT !.ws = "closed"]
    /\ progressFrame

\* part_009:108 a message reaches ws.onmessage
WsDeliver(type) ==
    /\ type \in progress.wsInFlight
    /\ progress.ws = "open"
    /\ progress' = onmessage([progress EXCEPT !.wsInFlight = @ \ {type}], type)
    /\ progressFrame

\* a message is lost on the way
WsLose(type) ==
    /\ type \in progress.wsInFlight
    /\ progress' = [progress EXCEPT !.wsInFlight = @ \ {type}]
    /\ progressFrame

InitProgress ==
    /\ difference = Diff("column_added", T("status"), Undefined, Undefined, <<>>, <<>>)
    /\ option1 = NotRendered
    /\ option2 = NotRendered
    /\ legacyOption1 = NotRendered
    /\ legacyOption2 = NotRendered
    /\ clipboard = NotRendered
    /\ ui = InitialState(1)
    /\ net = NoRequests
    /\ backend = InitBackend
    /\ progress = ProgressMounted
    /\ syncEngine = Idle
    /\ taskApi = NotStarted
    /\ panel = NoPanel

StatusKinds == {"initial", "interval"}
MessageTypes == {"progress", "complete", "error"}

NextProgress ==
    \/ BackendProgress
    \/ \E how \in {"completed", "failed"} : BackendEnds(how)
    \/ PollTick
    \/ \E kind \in StatusKinds : StatusAnswered(kind)
    \/ \E kind \in StatusKinds : StatusLost(kind)
    \/ \E ok \in BOOLEAN : ResultResponse(ok)
    \/ \E result \in BOOLEAN : TimerFires(result)
    \/ WsOpen
    \/ WsClose
    \/ \E type \in MessageTypes : WsDeliver(type)
    \/ \E type \in MessageTypes : WsLose(type)

\* The interval fires while it is set; a status call that is made again and
\* again is answered at some time; a result call ends, and a timer fires.
ProgressFairness ==
    /\ WF_vars(PollTick)
    /\ SF_vars(\E kind \in StatusKinds : StatusAnswered(kind))
    /\ WF_vars(\E ok \in BOOLEAN : ResultResponse(ok))
    /\ WF_vars(\E result \in BOOLEAN : TimerFires(result))

SpecProgress == InitProgress /\ [][NextProgress]_vars /\ ProgressFairness

-----------------------------------------------------------------------------
(* The executor: statements are issued one after the other on one          *)
(* connection, a failure is recorded and the batch goes on; the loss of    *)
(* the connection ends the batch.                                          *)

CREATE_T == "CREATE TABLE t (id INT);"
ADD_C == "ALTER TABLE t ADD COLUMN c INT;"
INVALID_SQL == "ALTER TABLE t ADD COLUMN;"
ExecStatements == {CREATE_T, ADD_C, INVALID_SQL}

\* the statements the database rejects
fails(statement) == statement = INVALID_SQL

RECURSIVE SeqsUpTo(_, _)
SeqsUpTo(S, n) ==
    IF n = 0 THEN {<<>>}
    ELSE LET shorter == SeqsUpTo(S, n - 1) IN
         shorter \cup {Append(t, x) : t \in {u \in shorter : Len(u) = n - 1}, x \in S}

ExecScripts == SeqsUpTo(ExecStatements, MaxStatements)

\* the executor about to issue the first statement of a script
ExecutionOf(script) ==
    [kind |-> "execute", script |-> script, pos |-> 1, state |-> "running",
     executed_statements |-> 0, failed_statements |-> 0, errors |-> <<>>,
     attempted |-> <<>>]

\* a variant: the first failure ends the batch
recordStatement_stopsAtFailure(e, statement) ==
    IF fails(statement)
    THEN [e EXCEPT !.pos = Len(e.script) + 1, !.failed_statements = @ + 1,
                   !.errors = Append(@, statement),
                   !.attempted = Append(@, [statement |-> statement, ok |-> FALSE])]
    ELSE [e EXCEPT !.pos = @ + 1, !.executed_statements = @ + 1,
                   !.attempted = Append(@, [statement |-> statement, ok |-> TRUE])]

\* one statement is issued and its outcome recorded, with the text of a
\* failing statement; the next statement follows whatever the outcome
recordStatement(e, statement) ==
    IF fails(statement)
    THEN [e EXCEPT !.pos = @ + 1, !.failed_statements = @ + 1,
                   !.errors = Append(@, statement),
                   !.attempted = Append(@, [statement |-> statement, ok |-> FALSE])]
    ELSE [e EXCEPT !.pos = @ + 1, !.executed_statements = @ + 1,
                   !.attempted = Append(@, [statement |-> statement, ok |-> TRUE])]

engineFrame == UNCHANGED <<genVars, uiVars, progress, taskApi, panel>>
taskFrame == UNCHANGED <<genVars, uiVars, progress, syncEngine, panel>>

ExecuteStatement ==
    /\ syncEngine.state = "running"
    /\ syncEngine.pos <= Len(syncEngine.script)
    /\ syncEngine' = recordStatement(syncEngine, syncEngine.script[syncEngine.pos])
    /\ engineFrame

\* every statement has been attempted: the result is returned
ExecutionEnds ==
    /\ syncEngine.state = "running"
    /\ syncEngine.pos > Len(syncEngine.script)
    /\ syncEngine' = [syncEngine EXCEPT !.state = "done"]
    /\ engineFrame

\* the connection is lost mid-batch: what is left is not attempted and the
\* result is partial
ConnectionLost ==
    /\ syncEngine.state = "running"
    /\ syncEngine.pos <= Len(syncEngine.script)
    /\ syncEngine' = [syncEngine EXCEPT !.state = "aborted"]
    /\ engineFrame

InitExec ==
    /\ difference = Diff("column_added", T("status"), Undefined, Undefined, <<>>, <<>>)
    /\ option1 = NotRendered
    /\ option2 = NotRendered
    /\ legacyOption1 = NotRendered
    /\ legacyOption2 = NotRendered
    /\ clipboard = NotRendered
    /\ ui = InitialState(1)
    /\ net = NoRequests
    /\ backend = InitBackend
    /\ progress = NotMounted
    /\ syncEngine \in {ExecutionOf(script) : script \in ExecScripts}
    /\ taskApi = NotStarted
    /\ panel = NoPanel

NextExec == ExecuteStatement \/ ExecutionEnds \/ ConnectionLost

SpecExec == InitExec /\ [][NextExec]_vars

-----------------------------------------------------------------------------
(* Properties of the executor, checked under SpecExec *)

\* the statements of a script that fail, in order
RECURSIVE failing(_)
failing(script) ==
    IF script = <<>> THEN <<>>
    ELSE (IF fails(Head(script)) THEN <<Head(script)>> ELSE <<>>) \o failing(Tail(script))

\* C12: execution attempts every statement of a script in order and goes on
\* past a failure: for n statements of which k fail the result reports
\* executed_statements = n - k and failed_statements = k, and a statement
\* after a failing one is executed and recorded on its own.
C12_ContinuesPastFailures ==
    syncEngine.kind = "execute" /\ syncEngine.state = "done" =>
        LET n == Len(syncEngine.script)
            k == Len(failing(syncEngine.script))
        IN /\ syncEngine.executed_statements = n - k
           /\ syncEngine.failed_statements = k
           /\ syncEngine.errors = failing(syncEngine.script)
           /\ Len(syncEngine.attempted) = n
           /\ \A i \in 1..n :
                 /\ syncEngine.attempted[i].statement = syncEngine.script[i]
                 /\ syncEngine.attempted[i].ok = ~fails(syncEngine.script[i])

\* three statements with an invalid second: two executed, one failed
C12_Witness ==
    /\ syncEngine.kind = "execute"
    /\ syncEngine.state = "done"
    /\ syncEngine.script = <<CREATE_T, INVALID_SQL, ADD_C>>
    /\ syncEngine.executed_statements = 2
    /\ syncEngine.failed_statements = 1
    /\ syncEngine.attempted[3] = [statement |-> ADD_C, ok |-> TRUE]

-----------------------------------------------------------------------------
(* The risk analyzer: a scan of the statements of a script, by their words *)

\* a statement is the sequence of its words
DROP_ORDERS == <<"DROP", "TABLE", "orders">>
DROP_IF_EXISTS == <<"drop", "table", "if", "exists", "orders">>
DROP_COLUMN_C == <<"ALTER", "TABLE", "t", "DROP", "COLUMN", "c">>
ADD_COLUMN_C == <<"ALTER", "TABLE", "t", "ADD", "COLUMN", "c", "INT">>
TRUNCATE_T == <<"TRUNCATE", "TABLE", "t">>
MODIFY_C == <<"ALTER", "TABLE", "t", "MODIFY", "COLUMN", "c", "TINYINT">>
CALL_PROC == <<"CALL", "cleanup">>
RiskStatements ==
    {DROP_ORDERS, DROP_IF_EXISTS, DROP_COLUMN_C, ADD_COLUMN_C, TRUNCATE_T, MODIFY_C, CALL_PROC}

RiskScripts == SeqsUpTo(RiskStatements, MaxStatements)

\* the keywords of a statement are read whatever their case
keyword(statement, i) ==
    IF i <= Len(statement)
    THEN CASE statement[i] = "drop" -> "DROP"
           [] statement[i] = "table" -> "TABLE"
           [] statement[i] = "if" -> "IF"
           [] statement[i] = "exists" -> "EXISTS"
           [] OTHER -> statement[i]
    ELSE ""

\* the shape a statement is recognized by
shapeOf(statement) ==
    CASE keyword(statement, 1) = "DROP" /\ keyword(statement, 2) = "TABLE" -> "drop_table"
      [] keyword(statement, 1) = "ALTER" /\ keyword(statement, 4) = "DROP"
            /\ keyword(statement, 5) = "COLUMN" -> "drop_column"
      [] keyword(statement, 1) = "TRUNCATE" -> "truncate"
      [] keyword(statement, 1) = "ALTER" /\ keyword(statement, 4) = "MODIFY" -> "modify"
      [] keyword(statement, 1) = "ALTER" /\ keyword(statement, 4) = "ADD" -> "add"
      [] OTHER -> "unrecognized"

\* the object a drop statement names
droppedObject(statement) ==
    CASE shapeOf(statement) = "drop_table" ->
            IF keyword(statement, 3) = "IF" THEN statement[5] ELSE statement[3]
      [] shapeOf(statement) = "drop_column" -> statement[6]
      [] OTHER -> ""

RiskOrder == <<"low", "medium", "high">>
rank(level) == CHOOSE i \in 1..3 : RiskOrder[i] = level
higher(a, b) == IF rank(a) >= rank(b) THEN a ELSE b

\* a variant: a statement of no known shape passes as low
riskOf_unrecognizedPasses(statement) ==
    CASE shapeOf(statement) \in {"drop_table", "drop_column"} -> "high"
      [] shapeOf(statement) \in {"truncate", "modify"} -> "medium"
      [] OTHER -> "low"

\* high for a drop of a table or a column, medium for the other destructive
\* keywords and for a statement of no known shape, low for what is left
riskOf(statement) ==
    CASE shapeOf(statement) \in {"drop_table", "drop_column"} -> "high"
      [] shapeOf(statement) \in {"truncate", "modify", "unrecognized"} -> "medium"
      [] OTHER -> "low"

\* the analyzer about to scan the first statement
AnalysisOf(script, target_database) ==
    [kind |-> "analyze", script |-> script, target_database |-> target_database,
     pos |-> 1, state |-> "running", risk_level |-> "low",
     drop_tables |-> <<>>, drop_columns |-> <<>>]

scanStatement(e, statement) ==
    [e EXCEPT !.pos = @ + 1,
              !.risk_level = higher(@, riskOf(statement)),
              !.drop_tables = IF shapeOf(statement) = "drop_table"
                              THEN Append(@, droppedObject(statement)) ELSE @,
              !.drop_columns = IF shapeOf(statement) = "drop_column"
                               THEN Append(@, droppedObject(statement)) ELSE @]

ScanStatement ==
    /\ syncEngine.state = "running"
    /\ syncEngine.pos <= Len(syncEngine.script)
    /\ syncEngine' = scanStatement(syncEngine, syncEngine.script[syncEngine.pos])
    /\ engineFrame

\* the report is returned
AnalysisEnds ==
    /\ syncEngine.state = "running"
    /\ syncEngine.pos > Len(syncEngine.script)
    /\ syncEngine' = [syncEngine EXCEPT !.state = "done"]
    /\ engineFrame

InitRisk ==
    /\ difference = Diff("column_added", T("status"), Undefined, Undefined, <<>>, <<>>)
    /\ option1 = NotRendered
    /\ option2 = NotRendered
    /\ legacyOption1 = NotRendered
    /\ legacyOption2 = NotRendered
    /\ clipboard = NotRendered
    /\ ui = InitialState(1)
    /\ net = NoRequests
    /\ backend = InitBackend
    /\ progress = NotMounted
    /\ syncEngine \in {AnalysisOf(script, side) :
                          script \in RiskScripts, side \in {"source", "target"}}
    /\ taskApi = NotStarted
    /\ panel = NoPanel

NextRisk == ScanStatement \/ AnalysisEnds

SpecRisk == InitRisk /\ [][NextRisk]_vars

-----------------------------------------------------------------------------
(* Properties of the risk analyzer, checked under SpecRisk *)

\* the words of a statement in upper case
upperWord(w) ==
    CASE w = "drop" -> "DROP" [] w = "table" -> "TABLE" [] w = "if" -> "IF"
      [] w = "exists" -> "EXISTS" [] OTHER -> w

hasWords(statement, from, words) ==
    /\ Len(statement) >= from + Len(words) - 1
    /\ \A i \in 1..Len(words) : upperWord(statement[from + i - 1]) = words[i]

isTableDrop(statement) == hasWords(statement, 1, <<"DROP", "TABLE">>)
isColumnDrop(statement) ==
    hasWords(statement, 1, <<"ALTER", "TABLE">>) /\ hasWords(statement, 4, <<"DROP", "COLUMN">>)
isAddColumn(statement) ==
    hasWords(statement, 1, <<"ALTER", "TABLE">>) /\ hasWords(statement, 4, <<"ADD", "COLUMN">>)
isKnownShape(statement) ==
    \/ isTableDrop(statement) \/ isColumnDrop(statement) \/ isAddColumn(statement)
    \/ hasWords(statement, 1, <<"TRUNCATE", "TABLE">>)
    \/ hasWords(statement, 1, <<"ALTER", "TABLE">>) /\ hasWords(statement, 4, <<"MODIFY", "COLUMN">>)

listed(names, name) == \E i \in 1..Len(names) : names[i] = name

\* C13: a script with a table drop or a column drop is classified high and
\* the object dropped is listed; a script of ADD COLUMN statements alone is
\* low or medium; a script with a statement of no known shape is never low.
C13_DropsAreHighAndListed ==
    syncEngine.kind = "analyze" /\ syncEngine.state = "done" =>
        LET script == syncEngine.script IN
        /\ \A i \in 1..Len(script) :
              /\ isTableDrop(script[i])
                    => /\ syncEngine.risk_level = "high"
                       /\ listed(syncEngine.drop_tables, script[i][Len(script[i])])
              /\ isColumnDrop(script[i])
                    => /\ syncEngine.risk_level = "high"
                       /\ listed(syncEngine.drop_columns, script[i][Len(script[i])])
              /\ ~isKnownShape(script[i]) => syncEngine.risk_level # "low"
        /\ (\A i \in 1..Len(script) : isAddColumn(script[i]))
              => syncEngine.risk_level \in {"low", "medium"}

\* DROP TABLE orders after an ADD COLUMN: high, with orders listed
C13_Witness ==
    /\ syncEngine.kind = "analyze"
    /\ syncEngine.state = "done"
    /\ syncEngine.script = <<ADD_COLUMN_C, DROP_ORDERS>>
    /\ syncEngine.risk_level = "high"
    /\ syncEngine.drop_tables = <<"orders">>

-----------------------------------------------------------------------------
(* The order of the statements of a sync script *)

\* the comparator ranks a difference when it reports it, before any direction
\* is chosen: table < column-add < constraint/index, drops in reverse
fixOrderOf(diff_type) ==
    CASE diff_type = "table_missing_target" -> 2
      [] diff_type = "column_added" -> 3
      [] diff_type \in {"constraint_missing_target", "index_missing_target"} -> 4
      [] diff_type \in {"constraint_missing_source", "index_missing_source"} -> 7
      [] diff_type = "column_removed" -> 8
      [] diff_type = "table_missing_source" -> 9

Reported(diff_type, object_type, object_name, sub_object_name, references) ==
    [diff_type |-> diff_type, object_type |-> object_type, object_name |-> object_name,
     sub_object_name |-> sub_object_name, references |-> references,
     fix_order |-> fixOrderOf(diff_type)]

\* what a comparison of two schemas may report
ReportedDifferences ==
    {Reported("table_missing_target", "table", "customers", "", ""),
     Reported("constraint_missing_target", "constraint", "orders", "fk_customer", "customers"),
     Reported("column_added", "column", "orders", "customer_id", ""),
     Reported("index_missing_target", "index", "orders", "idx_customer", ""),
     Reported("table_missing_source", "table", "regions", "", ""),
     Reported("constraint_missing_source", "constraint", "orders", "fk_region", "regions"),
     Reported("column_removed", "column", "orders", "legacy", "")}

KindOrder == <<"column", "constraint", "index", "table">>
NameOrder == <<"", "customer_id", "customers", "fk_customer", "fk_region", "idx_customer",
               "legacy", "orders", "regions">>
indexIn(order, x) == CHOOSE i \in 1..Len(order) : order[i] = x

\* a variant: the statements sorted by kind and name alone
precedes_byKindAndName(a, b) ==
    LET ka == indexIn(KindOrder, a.object_type)
        kb == indexIn(KindOrder, b.object_type)
        na == indexIn(NameOrder, a.object_name)
        nb == indexIn(NameOrder, b.object_name)
        sa == indexIn(NameOrder, a.sub_object_name)
        sb == indexIn(NameOrder, b.sub_object_name)
    IN  \/ ka < kb
        \/ ka = kb /\ na < nb
        \/ ka = kb /\ na = nb /\ sa <= sb

\* ascending fix_order, ties broken by object kind, then name
precedes(a, b) ==
    LET ka == indexIn(KindOrder, a.object_type)
        kb == indexIn(KindOrder, b.object_type)
        na == indexIn(NameOrder, a.object_name)
        nb == indexIn(NameOrder, b.object_name)
        sa == indexIn(NameOrder, a.sub_object_name)
        sb == indexIn(NameOrder, b.sub_object_name)
    IN  \/ a.fix_order < b.fix_order
        \/ a.fix_order = b.fix_order /\ ka < kb
        \/ a.fix_order = b.fix_order /\ ka = kb /\ na < nb
        \/ a.fix_order = b.fix_order /\ ka = kb /\ na = nb /\ sa <= sb

\* the side a difference says the object is missing on
missingOn(d) ==
    IF d.diff_type \in {"table_missing_target", "constraint_missing_target",
                         "index_missing_target", "column_added"}
    THEN "target" ELSE "source"

\* the emission rule of a difference for a direction: the object is created
\* where it is missing when that side is the one written to, dropped otherwise
emissionRule(d, direction) ==
    LET written == IF direction = "source_to_target" THEN "target" ELSE "source"
    IN  [verb |-> IF missingOn(d) = written THEN "create" ELSE "drop",
         object_type |-> d.object_type, object_name |-> d.object_name,
         sub_object_name |-> d.sub_object_name, references |-> d.references,
         fix_order |-> d.fix_order]

\* the generator about to emit the first statement
GenerationOf(differences, direction) ==
    [kind |-> "generate", direction |-> direction, pending |-> differences,
     statements |-> <<>>, state |-> "running"]

\* the next difference in the order is emitted
EmitStatement ==
    /\ syncEngine.state = "running"
    /\ \E d \in syncEngine.pending :
          /\ \A e \in syncEngine.pending : precedes(d, e)
          /\ syncEngine' =
                [syncEngine EXCEPT !.pending = @ \ {d},
                                   !.statements = Append(@, emissionRule(d, syncEngine.direction))]
    /\ engineFrame

GenerationEnds ==
    /\ syncEngine.state = "running"
    /\ syncEngine.pending = {}
    /\ syncEngine' = [syncEngine EXCEPT !.state = "done"]
    /\ engineFrame

InitOrder ==
    /\ difference = Diff("column_added", T("status"), Undefined, Undefined, <<>>, <<>>)
    /\ option1 = NotRendered
    /\ option2 = NotRendered
    /\ legacyOption1 = NotRendered
    /\ legacyOption2 = NotRendered
    /\ clipboard = NotRendered
    /\ ui = InitialState(1)
    /\ net = NoRequests
    /\ backend = InitBackend
    /\ progress = NotMounted
    /\ syncEngine \in {GenerationOf(differences, direction) :
                          differences \in SUBSET ReportedDifferences,
                          direction \in {"source_to_target", "target_to_source"}}
    /\ taskApi = NotStarted
    /\ panel = NoPanel

NextOrder == EmitStatement \/ GenerationEnds

SpecOrder == InitOrder /\ [][NextOrder]_vars

-----------------------------------------------------------------------------
(* Properties of the order of a script, checked under SpecOrder *)

createsTable(statement, table) ==
    /\ statement.verb = "create"
    /\ statement.object_type = "table"
    /\ statement.object_name = table

addsForeignKeyTo(statement, table) ==
    /\ statement.verb = "create"
    /\ statement.object_type = "constraint"
    /\ statement.references = table

ascending(statements) ==
    \A i, j \in 1..Len(statements) :
        i < j => statements[i].fix_order <= statements[j].fix_order

foreignKeysFollowTables(statements) ==
    \A i, j \in 1..Len(statements) :
        \A table \in {"customers", "regions"} :
            addsForeignKeyTo(statements[i], table) /\ createsTable(statements[j], table)
                => j < i

\* C14: the statements of a generated script are in ascending fix_order, and
\* a statement adding a foreign key that references a table never precedes
\* the statement that creates that table.
C14_ForeignKeyAfterItsTable ==
    syncEngine.kind = "generate" =>
        /\ ascending(syncEngine.statements)
        /\ foreignKeysFollowTables(syncEngine.statements)

\* the part of C14 that holds in both directions
C14_AscendingFixOrder ==
    syncEngine.kind = "generate" => ascending(syncEngine.statements)

\* the foreign key to regions added on the source before regions is created
C14_Witness ==
    /\ syncEngine.kind = "generate"
    /\ syncEngine.state = "done"
    /\ syncEngine.direction = "target_to_source"
    /\ Len(syncEngine.statements) = 2
    /\ addsForeignKeyTo(syncEngine.statements[1], "regions")
    /\ createsTable(syncEngine.statements[2], "regions")

-----------------------------------------------------------------------------
(* task-api: the Express application over the tasks table *)

Num(n) == [kind |-> "number", value |-> n]

\* datetimes a client may send
EPOCH == T("1970-01-01T00:00:00Z")
EPOCH_ISO == T("1970-01-01T00:00:00.000Z")
ONE_SECOND == T("1970-01-01T00:00:01Z")
ONE_SECOND_ISO == T("1970-01-01T00:00:01.000Z")
DateTimes == {EPOCH, EPOCH_ISO, ONE_SECOND, ONE_SECOND_ISO}

\* new Date(s).getTime(): milliseconds since the epoch
getTime(chars) == IF chars \in {EPOCH, EPOCH_ISO} THEN 0 ELSE 1000

\* new Date(ms).toISOString(); the instants of the clock are counted in
\* milliseconds from the start of the server
toISOString(ms) ==
    CASE ms = 0 -> EPOCH_ISO
      [] ms = 1000 -> ONE_SECOND_ISO
      [] OTHER -> <<"Date", ms>>

TaskPriorityEnum == {T("low"), T("medium"), T("high")}

\* z.string().min(1).max(255)
stringMin1_acceptsEmpty(v) ==
    IF v.kind # "string" THEN "Expected string" ELSE ""

stringMin1(v) ==
    IF v.kind # "string" THEN "Expected string"
    ELSE IF v.chars = <<>> THEN "String must contain at least 1 character(s)"
    ELSE ""

\* z.string().max(2000).nullable()
nullableString(v) == IF v.kind \in {"null", "string"} THEN "" ELSE "Expected string"

\* z.boolean()
boolean(v) == IF v.kind = "boolean" THEN "" ELSE "Expected boolean"

\* z.enum(['low', 'medium', 'high'])
priorityEnum(v) ==
    IF v.kind = "string" /\ v.chars \in TaskPriorityEnum THEN "" ELSE "Invalid enum value"

\* z.string().datetime().nullable()
nullableDatetime(v) ==
    IF v.kind = "null" \/ (v.kind = "string" /\ v.chars \in DateTimes)
    THEN "" ELSE "Invalid datetime"

\* a key of a z.object that is not optional
required(v, issue) == IF v.kind = "undefined" THEN "Required" ELSE issue
\* .optional(): undefined passes, and the inner schema is not consulted
optional(v, issue) == IF v.kind = "undefined" THEN "" ELSE issue
\* .default(d)
default(v, d) == IF v.kind = "undefined" THEN d ELSE v

\* the issues of a parse as {field, message}, in the order of the keys
detailsOf(title, description, completed, priority, dueDate) ==
    SelectSeq(<<[field |-> "title", message |-> title],
                [field |-> "description", message |-> description],
                [field |-> "completed", message |-> completed],
                [field |-> "priority", message |-> priority],
                [field |-> "dueDate", message |-> dueDate]>>,
              LAMBDA d : d.message # "")

parsed(details, data) == [success |-> details = <<>>, details |-> details, data |-> data]

CreateTaskSchema(body) ==
    parsed(detailsOf(required(body.title, stringMin1(body.title)),
                     optional(body.description, nullableString(body.description)),
                     optional(body.completed, boolean(body.completed)),
                     optional(body.priority, priorityEnum(body.priority)),
                     optional(body.dueDate, nullableDatetime(body.dueDate))),
           [body EXCEPT !.completed = default(@, Bool(FALSE)),
                        !.priority = default(@, Str(T("medium")))])

UpdateTaskSchema(body) ==
    parsed(detailsOf(required(body.title, stringMin1(body.title)),
                     required(body.description, nullableString(body.description)),
                     required(body.completed, boolean(body.completed)),
                     required(body.priority, priorityEnum(body.priority)),
                     required(body.dueDate, nullableDatetime(body.dueDate))),
           body)

\* a variant: the defaults of CreateTaskSchema applied to the absent keys
PatchTaskSchema_appliesDefaults(body) ==
    parsed(CreateTaskSchema([body EXCEPT !.title = default(@, Str(T("a")))]).details,
           [body EXCEPT !.completed = default(@, Bool(FALSE)),
                        !.priority = default(@, Str(T("medium")))])

\* CreateTaskSchema.partial(): every key optional, absent keys left absent
PatchTaskSchema(body) ==
    parsed(detailsOf(optional(body.title, stringMin1(body.title)),
                     optional(body.description, nullableString(body.description)),
                     optional(body.completed, boolean(body.completed)),
                     optional(body.priority, priorityEnum(body.priority)),
                     optional(body.dueDate, nullableDatetime(body.dueDate))),
           body)

\* ---- errors ------------------------------------------------------------

AppError(statusCode, message, code, details) ==
    [kind |-> "AppError", statusCode |-> statusCode, message |-> message,
     code |-> code, details |-> details]

NotFoundError(resource, id) ==
    AppError(404, <<resource, " with id '", id, "' not found">>, "NOT_FOUND", Undefined)

ValidationError(details) ==
    AppError(400, <<"Validation failed">>, "VALIDATION_ERROR", Arr(details))

\* what express.json() throws at a body that is not JSON
SyntaxError == [kind |-> "SyntaxError"]

errorHandler(err) ==
    IF err.kind = "AppError"
    THEN [status |-> err.statusCode,
          body |-> [error |-> IF truthy(err.details)
                              THEN [code |-> err.code, message |-> err.message,
                                    details |-> err.details.items]
                              ELSE [code |-> err.code, message |-> err.message]]]
    ELSE [status |-> 500,
          body |-> [error |-> [code |-> "INTERNAL_SERVER_ERROR",
                               message |-> <<"An unexpected error occurred">>]]]

\* ---- TaskRepository ------------------------------------------------------

TaskIds == {"t1"}
fakeId == "00000000-0000-0000-0000-000000000000"
RequestIds == TaskIds \cup {fakeId}

NoRow == [kind |-> "none"]
NoTasks == [id \in RequestIds |-> NoRow]

dbRowToTask(row) ==
    [kind |-> "object", id |-> row.id,
     title |-> row.title,
     description |-> row.description,
     completed |-> Bool(row.status = "completed"),
     priority |-> row.priority,
     dueDate |-> IF truthy(row.due_date) THEN Str(toISOString(row.due_date.value)) ELSE Null,
     createdAt |-> Str(toISOString(row.created_at)),
     updatedAt |-> Str(toISOString(row.updated_at))]

findById(db, id) == IF db[id] = NoRow THEN Null ELSE dbRowToTask(db[id])

statusColumn(completed) == IF truthy(completed) THEN "completed" ELSE "pending"
dueDateColumn(dueDate) == IF truthy(dueDate) THEN Num(getTime(dueDate.chars)) ELSE Null

\* each method gives the table after it and what it returns
create(db, id, now, data) ==
    LET description == IF data.description.kind \in {"undefined", "null"}
                       THEN Null ELSE data.description
    IN  [db |-> [db EXCEPT ![id] =
                    [kind |-> "row", id |-> id, title |-> data.title,
                     description |-> description,
                     status |-> statusColumn(data.completed),
                     priority |-> IF truthy(data.priority) THEN data.priority
                                  ELSE Str(T("medium")),
                     created_at |-> now, updated_at |-> now,
                     due_date |-> dueDateColumn(data.dueDate)]],
         result |-> [kind |-> "object", id |-> id, title |-> data.title, description |-> description,
                     completed |-> IF truthy(data.completed) THEN data.completed
                                   ELSE Bool(FALSE),
                     priority |-> IF truthy(data.priority) THEN data.priority
                                  ELSE Str(T("medium")),
                     dueDate |-> IF truthy(data.dueDate) THEN data.dueDate ELSE Null,
                     createdAt |-> Str(toISOString(now)),
                     updatedAt |-> Str(toISOString(now))]]

update(db, id, now, data) ==
    LET existing == findById(db, id)
    IN  IF ~truthy(existing) THEN [db |-> db, result |-> Null]
        ELSE [db |-> [db EXCEPT ![id].title = data.title,
                                ![id].description = data.description,
                                ![id].status = statusColumn(data.completed),
                                ![id].priority = data.priority,
                                ![id].updated_at = now,
                                ![id].due_date = dueDateColumn(data.dueDate)],
              result |-> [kind |-> "object", id |-> id, title |-> data.title,
                          description |-> data.description,
                          completed |-> data.completed, priority |-> data.priority,
                          dueDate |-> data.dueDate, createdAt |-> existing.createdAt,
                          updatedAt |-> Str(toISOString(now))]]

given(v) == v.kind # "undefined"

patch(db, id, now, data) ==
    LET existing == findById(db, id)
        updates == {f \in {"title", "description", "completed", "priority", "dueDate"} :
                        given(data[f])}
        after == [db EXCEPT
                    ![id].title = IF given(data.title) THEN data.title ELSE @,
                    ![id].description = IF given(data.description)
                                        THEN data.description ELSE @,
                    ![id].status = IF given(data.completed)
                                   THEN statusColumn(data.completed) ELSE @,
                    ![id].priority = IF given(data.priority) THEN data.priority ELSE @,
                    ![id].due_date = IF given(data.dueDate)
                                     THEN dueDateColumn(data.dueDate) ELSE @,
                    ![id].updated_at = now]
    IN  IF ~truthy(existing) THEN [db |-> db, result |-> Null]
        ELSE IF updates = {} THEN [db |-> db, result |-> existing]
        ELSE [db |-> after, result |-> findById(after, id)]

\* a variant: no look at whether the row exists
delete_withoutLookup(db, id) ==
    [db |-> [db EXCEPT ![id] = NoRow], result |-> TRUE]

delete(db, id) ==
    IF ~truthy(findById(db, id)) THEN [db |-> db, result |-> FALSE]
    ELSE [db |-> [db EXCEPT ![id] = NoRow], result |-> TRUE]

\* ---- the routes: validate, controller, service, errorHandler -------------

NoBody ==
    [title |-> Undefined, description |-> Undefined, completed |-> Undefined,
     priority |-> Undefined, dueDate |-> Undefined]

\* request bodies: no key, one key, all five keys, and a priority that is
\* not of the enumeration beside a good title
OneKey ==
    {[NoBody EXCEPT !.title = v] : v \in {Str(<<>>), Str(T("a")), Str(T("b"))}}
    \cup {[NoBody EXCEPT !.description = Str(T("d"))]}
    \cup {[NoBody EXCEPT !.completed = Bool(TRUE)]}
    \cup {[NoBody EXCEPT !.priority = v] : v \in {Str(T("high")), Str(T("urgent"))}}
    \cup {[NoBody EXCEPT !.dueDate = v] : v \in {Null, Str(EPOCH), Str(ONE_SECOND)}}

AllKeys ==
    [title : {Str(T("a")), Str(T("b"))}, description : {Str(T("d"))},
     completed : {Bool(TRUE)}, priority : {Str(T("high"))},
     dueDate : {Null, Str(EPOCH), Str(ONE_SECOND)}]

Bodies ==
    {NoBody} \cup OneKey \cup AllKeys
    \cup {[NoBody EXCEPT !.title = Str(T("a")), !.priority = Str(T("urgent"))]}

\* a body express.json() could not parse
NotJson == [f \in {"title", "description", "completed", "priority", "dueDate"} |->
               [kind |-> "unparsed"]]

Request(method, id, body) == [method |-> method, id |-> id, body |-> body]

json(status, data) == [status |-> status, body |-> [data |-> data]]
NoContent == [status |-> 204, body |-> <<>>]

\* the application after a request has been answered
answered(request, out, response) ==
    [kind |-> "running", db |-> out, clock |-> taskApi.clock,
     deleted |-> taskApi.deleted \cup {id \in RequestIds :
                                          taskApi.db[id] # NoRow /\ out[id] = NoRow},
     request |-> request, before |-> taskApi.db, response |-> response]

\* Date.now()
DateNow == taskApi.clock

\* time passes between two requests
Tick ==
    /\ taskApi.kind = "running"
    /\ taskApi.clock < MaxClock
    /\ taskApi' = [taskApi EXCEPT !.clock = @ + 1]
    /\ taskFrame

\* router.get('/:id')
GetTask(id) ==
    /\ taskApi.kind = "running"
    /\ LET task == findById(taskApi.db, id)
       IN  taskApi' = answered(Request("GET", id, NoBody), taskApi.db,
                               IF truthy(task) THEN json(200, task)
                               ELSE errorHandler(NotFoundError("Task", id)))
    /\ taskFrame

\* router.post('/')
PostTask(body) ==
    /\ taskApi.kind = "running"
    /\ LET validated == CreateTaskSchema(body)
           unused == {id \in TaskIds : taskApi.db[id] = NoRow /\ id \notin taskApi.deleted}
       IN  IF ~validated.success
           THEN taskApi' = answered(Request("POST", "", body), taskApi.db,
                                    errorHandler(ValidationError(validated.details)))
           ELSE \E id \in unused :
                   LET created == create(taskApi.db, id, DateNow, validated.data)
                   IN  taskApi' = answered(Request("POST", "", body), created.db,
                                           json(201, created.result))
    /\ taskFrame

\* router.put('/:id')
PutTask(id, body) ==
    /\ taskApi.kind = "running"
    /\ LET validated == UpdateTaskSchema(body)
           updated == update(taskApi.db, id, DateNow, validated.data)
       IN  taskApi' =
             IF ~validated.success
             THEN answered(Request("PUT", id, body), taskApi.db,
                           errorHandler(ValidationError(validated.details)))
             ELSE IF ~truthy(updated.result)
             THEN answered(Request("PUT", id, body), taskApi.db,
                           errorHandler(NotFoundError("Task", id)))
             ELSE answered(Request("PUT", id, body), updated.db,
                           json(200, updated.result))
    /\ taskFrame

\* router.patch('/:id')
PatchTask(id, body) ==
    /\ taskApi.kind = "running"
    /\ LET validated == PatchTaskSchema(body)
           patched == patch(taskApi.db, id, DateNow, validated.data)
       IN  taskApi' =
             IF ~validated.success
             THEN answered(Request("PATCH", id, body), taskApi.db,
                           errorHandler(ValidationError(validated.details)))
             ELSE IF ~truthy(patched.result)
             THEN answered(Request("PATCH", id, body), taskApi.db,
                           errorHandler(NotFoundError("Task", id)))
             ELSE answered(Request("PATCH", id, body), patched.db,
                           json(200, patched.result))
    /\ taskFrame

\* router.delete('/:id')
DeleteTask(id) ==
    /\ taskApi.kind = "running"
    /\ LET deleted == delete(taskApi.db, id)
       IN  taskApi' = answered(Request("DELETE", id, NoBody), deleted.db,
                               IF deleted.result THEN NoContent
                               ELSE errorHandler(NotFoundError("Task", id)))
    /\ taskFrame

\* a path no route matches: the 404 handler of createApp
UnknownRoute ==
    /\ taskApi.kind = "running"
    /\ taskApi' = answered(Request("GET", "", NoBody), taskApi.db,
                           errorHandler(AppError(404, <<"Route ", "GET", " ", "/nowhere",
                                                         " not found">>,
                                                 "ROUTE_NOT_FOUND", Undefined)))
    /\ taskFrame

\* a body that is not JSON: express.json() hands its error to errorHandler
MalformedBody ==
    /\ taskApi.kind = "running"
    /\ taskApi' = answered(Request("POST", "", NotJson), taskApi.db,
                           errorHandler(SyntaxError))
    /\ taskFrame

InitTasks ==
    /\ difference = Diff("column_added", T("status"), Undefined, Undefined, <<>>, <<>>)
    /\ option1 = NotRendered
    /\ option2 = NotRendered
    /\ legacyOption1 = NotRendered
    /\ legacyOption2 = NotRendered
    /\ clipboard = NotRendered
    /\ ui = InitialState(1)
    /\ net = NoRequests
    /\ backend = InitBackend
    /\ progress = NotMounted
    /\ syncEngine = Idle
    /\ taskApi = [kind |-> "running", db |-> NoTasks, clock |-> 1, deleted |-> {},
                  request |-> Request("none", "", NoBody), before |-> NoTasks,
                  response |-> [status |-> 0, body |-> <<>>]]
    /\ panel = NoPanel

NextTasks ==
    \/ \E id \in RequestIds : GetTask(id)
    \/ \E body \in Bodies : PostTask(body)
    \/ \E id \in RequestIds, body \in Bodies : PutTask(id, body)
    \/ \E id \in RequestIds, body \in Bodies : PatchTask(id, body)
    \/ \E id \in RequestIds : DeleteTask(id)
    \/ UnknownRoute
    \/ MalformedBody
    \/ Tick

SpecTasks == InitTasks /\ [][NextTasks]_vars

-----------------------------------------------------------------------------
(* Properties of the task API, checked under SpecTasks *)

TaskFields == {"title", "description", "completed", "priority", "dueDate"}

\* the last request named a task
onTask(methods) ==
    /\ taskApi.kind = "running"
    /\ taskApi.request.method \in methods
    /\ taskApi.request.id \in RequestIds

existedBefore == taskApi.before[taskApi.request.id] # NoRow
existsAfter == taskApi.db[taskApi.request.id] # NoRow
nothingChanged == taskApi.db = taskApi.before

\* the body of the last PUT or PATCH passes the schema of its route
bodyPasses ==
    IF taskApi.request.method = "PUT"
    THEN UpdateTaskSchema(taskApi.request.body).success
    ELSE PatchTaskSchema(taskApi.request.body).success

errorCode == taskApi.response.body.error.code

\* what is asked of DELETE on a task that is there, and of the table after
deleteRemoves ==
    /\ \A id \in taskApi.deleted : taskApi.db[id] = NoRow
    /\ onTask({"DELETE"}) /\ existedBefore
          => taskApi.response.status = 204 /\ ~existsAfter
    /\ onTask({"DELETE"}) /\ ~existedBefore
          => taskApi.response.status = 404 /\ nothingChanged

C15_ValidationWitness ==
    /\ onTask({"PUT"})
    /\ taskApi.request.id \in taskApi.deleted
    /\ ~bodyPasses
    /\ taskApi.response.status = 400

\* the task as GET returns it, before and after the last request
taskBefore == findById(taskApi.before, taskApi.request.id)
taskAfter == findById(taskApi.db, taskApi.request.id)

\* the keys absent from the body, id and createdAt are as they were
absentKeysKept ==
    /\ taskAfter.id = taskBefore.id
    /\ taskAfter.createdAt = taskBefore.createdAt
    /\ \A f \in TaskFields :
          taskApi.request.body[f].kind = "undefined" => taskAfter[f] = taskBefore[f]

C16_ValidationWitness ==
    /\ onTask({"PATCH"})
    /\ ~existedBefore
    /\ ~bodyPasses
    /\ taskApi.response.status = 400

\* the bodies C17 calls invalid
titleMissing == taskApi.request.body.title.kind = "undefined"
titleEmpty == taskApi.request.body.title = Str(<<>>)
priorityOutside ==
    /\ taskApi.request.body.priority.kind = "string"
    /\ taskApi.request.body.priority.chars \notin {T("low"), T("medium"), T("high")}

\* C17: POST with a body whose title is missing or empty, or whose priority
\* is none of low, medium, high, answers 400 with a validation error and
\* creates nothing.
C17_InvalidPostCreatesNothing ==
    /\ taskApi.kind = "running"
    /\ taskApi.request.method = "POST"
    /\ (titleMissing \/ titleEmpty \/ priorityOutside)
    => /\ taskApi.response.status = 400
       /\ errorCode = "VALIDATION_ERROR"
       /\ nothingChanged

\* POST {title: ''}
C17_Witness ==
    /\ taskApi.kind = "running"
    /\ taskApi.request.method = "POST"
    /\ titleEmpty
    /\ taskApi.response.status = 400
    /\ taskApi.response.body.error.details =
          <<[field |-> "title", message |-> "String must contain at least 1 character(s)"]>>
    /\ nothingChanged

\* two values of dueDate that name the same instant, or are both null
sameInstant(a, b) ==
    \/ a = b
    \/ a.kind = "string" /\ b.kind = "string" /\ getTime(a.chars) = getTime(b.chars)

\* C18 as stated: PUT on an existing task replaces title, description,
\* completed, priority and dueDate by the body's values and keeps id and
\* createdAt, and a later GET returns those values; on an id that does not
\* exist it answers 404 and creates nothing.
C18_PutReplaces ==
    onTask({"PUT"}) =>
        /\ existedBefore /\ taskApi.response.status = 200
              => /\ taskAfter.id = taskBefore.id
                 /\ taskAfter.createdAt = taskBefore.createdAt
                 /\ taskAfter.title = taskApi.request.body.title
                 /\ taskAfter.description = taskApi.request.body.description
                 /\ taskAfter.completed = taskApi.request.body.completed
                 /\ taskAfter.priority = taskApi.request.body.priority
                 /\ sameInstant(taskAfter.dueDate, taskApi.request.body.dueDate)
        /\ ~existedBefore => taskApi.response.status = 404 /\ nothingChanged

\* PUT with dueDate 1970-01-01T00:00:00Z: answered with that date, read back null
C18_Witness ==
    /\ onTask({"PUT"})
    /\ existedBefore
    /\ taskApi.response.status = 200
    /\ taskApi.request.body.dueDate = Str(EPOCH)
    /\ taskApi.response.body.data.dueDate = Str(EPOCH)
    /\ taskAfter.dueDate = Null

\* C19: every error response is {error: message, code, details} with code
\* and status one of VALIDATION_ERROR/400, TASK_NOT_FOUND/404,
\* ROUTE_NOT_FOUND/404, INTERNAL_SERVER_ERROR/500.
C19_ErrorShape ==
    taskApi.kind = "running" /\ taskApi.response.status >= 400 =>
        /\ DOMAIN taskApi.response.body = {"error", "code", "details"}
        /\ <<taskApi.response.body.code, taskApi.response.status>> \in
              {<<"VALIDATION_ERROR", 400>>, <<"TASK_NOT_FOUND", 404>>,
               <<"ROUTE_NOT_FOUND", 404>>, <<"INTERNAL_SERVER_ERROR", 500>>}

\* what the code answers: {error: {code, message}} with details only for a
\* validation error, and NOT_FOUND for a task that is not there
C19_NestedErrorShape ==
    taskApi.kind = "running" /\ taskApi.response.status >= 400 =>
        /\ DOMAIN taskApi.response.body = {"error"}
        /\ <<errorCode, taskApi.response.status>> \in
              {<<"VALIDATION_ERROR", 400>>, <<"NOT_FOUND", 404>>,
               <<"ROUTE_NOT_FOUND", 404>>, <<"INTERNAL_SERVER_ERROR", 500>>}
        /\ ("details" \in DOMAIN taskApi.response.body.error) = (errorCode = "VALIDATION_ERROR")

\* GET of a task that is not there
C19_Witness ==
    /\ onTask({"GET"})
    /\ taskApi.response.status = 404
    /\ DOMAIN taskApi.response.body = {"error"}
    /\ errorCode = "NOT_FOUND"

-----------------------------------------------------------------------------
(* The execute requests of ComparisonResults, checked under Spec *)

\* the execute requests a step adds
issued == net'.execute \ net.execute

\* C20: ComparisonResults has at most one execute request in flight, and a
\* request is issued only by a press of Confirm, one request for one press:
\* no answer, failed or partly failed, makes it issue another.
C20_OneExecutePerConfirm ==
    /\ [](Cardinality(net.execute) <= 1 /\ (net.execute # {} => ui.executing))
    /\ [][issued # {} => /\ ClickConfirm
                         /\ Cardinality(issued) = 1
                         /\ net.execute = {}]_vars

\* a run failed, the user applied and confirmed again: one request in flight
C20_Witness ==
    /\ backend.last = "failure"
    /\ Cardinality(net.execute) = 1
    /\ ui.executing

\* an execute request was answered in this step by a run that applied at
\* least one statement
appliedRun ==
    /\ ui'.comparisonId = ui.comparisonId
    /\ net.execute \ net'.execute # {}
    /\ backend'.last \in {"success", "failure"}
    /\ backend'.executed_statements >= 1

\* C21: once an execution has changed a database the script cache is
\* cleared: when the answer of a run that applied at least one statement
\* arrives, no direction has a script left in the cache, so no script
\* generated before the run is served or applied again.
C21_ChangedDatabaseClearsCache ==
    [][appliedRun => \A d \in Directions : ui'.scriptCache[d] = NoScript]_vars

\* a run applied statements and reported failures: the script it ran is
\* still the current script, and the page offers it again
C21_Witness ==
    /\ backend.last = "failure"
    /\ backend.executed_statements >= 1
    /\ ui.executeResult = "none"
    /\ currentScript(ui) # NoScript
    /\ pageVisible(ui)
    /\ ui.activeTab = "sync"

-----------------------------------------------------------------------------
(* SpecExport: Export Results.  Two ComparisonResults show one comparison   *)
(* result each and write it to a file.  A JavaScript object is the sequence *)
(* of its members in insertion order; JSON.stringify is modelled by the     *)
(* text it writes, without the white space of its indentation.              *)

Obj(members) == [kind |-> "object", members |-> members]
member(key, value) == [key |-> key, value |-> value]

\* o.key, undefined for a key the object does not have
get(o, key) ==
    LET at == {i \in 1..Len(o.members) : o.members[i].key = key}
    IN  IF at = {} THEN Undefined ELSE o.members[CHOOSE i \in at : TRUE].value

\* { ...o, key: value }: an own key keeps its place, a new one goes last
assign(o, key, value) ==
    IF \E i \in 1..Len(o.members) : o.members[i].key = key
    THEN Obj([i \in 1..Len(o.members) |->
                 IF o.members[i].key = key THEN member(key, value) ELSE o.members[i]])
    ELSE Obj(Append(o.members, member(key, value)))

RECURSIVE stringify(_)
RECURSIVE stringifyMembers(_)

\* JSON.stringify of the members of an object: one with an undefined value
\* is left out
stringifyMembers(members) ==
    IF members = <<>> THEN <<>>
    ELSE LET m == Head(members)
             rest == stringifyMembers(Tail(members))
         IN  IF m.value.kind = "undefined" THEN rest
             ELSE <<"\"", m.key, "\"", ":">> \o stringify(m.value)
                      \o (IF rest = <<>> THEN <<>> ELSE <<",">> \o rest)

\* JSON.stringify
stringify(v) ==
    CASE v.kind = "string" -> <<"\"">> \o v.chars \o <<"\"">>
      [] v.kind = "number" -> <<ToString(v.value)>>
      [] v.kind = "boolean" -> <<v.text>>
      [] v.kind = "null" -> <<"null">>
      [] v.kind = "object" -> <<"{">> \o stringifyMembers(v.members) \o <<"}">>

\* types/index.ts:31-50, with the secrets an SSH tunnel carries
Tunnel ==
    Obj(<<member("enabled", Bool(TRUE)), member("ssh_host", Str(T("bastion"))),
          member("ssh_user", Str(T("jump"))), member("ssh_password", Str(T("s3cret")))>>)

\* types/index.ts:1-7 and :52-54
Config(host, user, password, database, ssh_tunnel) ==
    Obj(<<member("host", Str(T(host))), member("port", Num(3306)),
          member("user", Str(T(user))), member("password", Str(T(password))),
          member("database", database), member("ssh_tunnel", ssh_tunnel)>>)

SourceConfigs ==
    {Config("db-a", user, password, database, ssh_tunnel) :
        user \in {"root", "app"}, password \in {"pw1", "pw2"},
        database \in {Undefined, Str(T("shop"))}, ssh_tunnel \in {Undefined, Tunnel}}

TargetConfigs ==
    {Config(host, "root", "pw1", Str(T("shop")), Undefined) : host \in {"db-b", "db-c"}}

\* types/index.ts:206-229
ComparisonResult(source, target) ==
    Obj(<<member("comparison_id", Str(T("c1"))),
          member("source_config", source), member("target_config", target),
          member("objects_compared", Num(3))>>)

ComparisonResults == {ComparisonResult(s, t) : s \in SourceConfigs, t \in TargetConfigs}

NotDownloaded == T("!not downloaded")

\* part_009:393-415: what the newer ComparisonResults writes
downloadResults(result) ==
    LET sanitizedResult ==
            assign(assign(result, "source_config",
                          Obj(<<member("host", get(get(result, "source_config"), "host")),
                                member("port", get(get(result, "source_config"), "port")),
                                member("database",
                                       get(get(result, "source_config"), "database"))>>)),
                   "target_config",
                   Obj(<<member("host", get(get(result, "target_config"), "host")),
                         member("port", get(get(result, "target_config"), "port")),
                         member("database",
                                get(get(result, "target_config"), "database"))>>))
    IN  stringify(sanitizedResult)

\* frontend/components/ComparisonResults.tsx:62-66: what the component the
\* page imports writes
componentsDownloadResults(result) == stringify(result)

exportFrame == UNCHANGED <<genVars, uiVars, progress, syncEngine, taskApi>>

\* part_009:393-422: Export Results is pressed in run i
DownloadResults(i) ==
    /\ panel.kind = "export"
    /\ IF panel.result[i].kind = "null"
       THEN panel' = panel
       ELSE panel' = [panel EXCEPT !.file[i] = downloadResults(panel.result[i])]
    /\ exportFrame

\* frontend/components/ComparisonResults.tsx:62-73: the same press there
ComponentsDownloadResults(i) ==
    /\ panel.kind = "export"
    /\ IF panel.result[i].kind = "null"
       THEN panel' = panel
       ELSE panel' = [panel EXCEPT
                         !.componentsFile[i] = componentsDownloadResults(panel.result[i])]
    /\ exportFrame

InitExport ==
    /\ difference = Diff("column_added", T("status"), Undefined, Undefined, <<>>, <<>>)
    /\ option1 = NotRendered
    /\ option2 = NotRendered
    /\ legacyOption1 = NotRendered
    /\ legacyOption2 = NotRendered
    /\ clipboard = NotRendered
    /\ ui = InitialState(1)
    /\ net = NoRequests
    /\ backend = InitBackend
    /\ progress = NotMounted
    /\ syncEngine = Idle
    /\ taskApi = NotStarted
    /\ \E r1 \in ComparisonResults \cup {Null}, r2 \in ComparisonResults :
          panel = [kind |-> "export", result |-> <<r1, r2>>,
                   file |-> <<NotDownloaded, NotDownloaded>>,
                   componentsFile |-> <<NotDownloaded, NotDownloaded>>]

NextExport ==
    \/ \E i \in 1..2 : DownloadResults(i)
    \/ \E i \in 1..2 : ComponentsDownloadResults(i)

SpecExport == InitExport /\ [][NextExport]_vars

-----------------------------------------------------------------------------
(* Properties of Export Results, checked under SpecExport *)

CredentialKeys == {"user", "password", "ssh_tunnel"}
ConfigKeys == {"source_config", "target_config"}

\* an object without the members of the given keys
without(o, keys) == Obj(SelectSeq(o.members, LAMBDA m : m.key \notin keys))

\* two results that differ only in credential fields of their two configs
differOnlyInCredentials(r1, r2) ==
    /\ r1.kind = "object" /\ r2.kind = "object"
    /\ r1 # r2
    /\ without(r1, ConfigKeys) = without(r2, ConfigKeys)
    /\ \A side \in ConfigKeys :
          without(get(r1, side), CredentialKeys) = without(get(r2, side), CredentialKeys)

bothWritten(files) == files[1] # NotDownloaded /\ files[2] # NotDownloaded

\* C22: the file written by Export Results holds no database user, password
\* or SSH-tunnel setting: two results that differ only in those fields of
\* source_config / target_config give the same file, in either copy of
\* ComparisonResults.
C22_ExportHidesCredentials ==
    panel.kind = "export" /\ differOnlyInCredentials(panel.result[1], panel.result[2]) =>
        /\ bothWritten(panel.file) => panel.file[1] = panel.file[2]
        /\ bothWritten(panel.componentsFile) =>
               panel.componentsFile[1] = panel.componentsFile[2]

\* the same of the copy that builds sanitizedResult
C22_SanitizedExportHidesCredentials ==
    panel.kind = "export" /\ differOnlyInCredentials(panel.result[1], panel.result[2]) =>
        (bothWritten(panel.file) => panel.file[1] = panel.file[2])

\* two results that differ in a password only, exported by the component
\* the page imports: the files differ
C22_Witness ==
    /\ panel.kind = "export"
    /\ differOnlyInCredentials(panel.result[1], panel.result[2])
    /\ bothWritten(panel.componentsFile)
    /\ bothWritten(panel.file)
    /\ panel.componentsFile[1] # panel.componentsFile[2]

-----------------------------------------------------------------------------
(* SpecSelector: DatabaseSelector.  The form, its connection state and the  *)
(* connection test it awaits; the test keeps the formData of the render in  *)
(* which Test Connection was pressed.                                       *)

\* part_011:803-827: the form a DatabaseSelector starts with
DefaultFormData ==
    [host |-> "localhost", port |-> 3306, user |-> "root", password |-> "",
     database |-> "",
     ssh_tunnel |-> [enabled |-> FALSE, ssh_host |-> "", ssh_port |-> 22,
                     ssh_user |-> "", auth_method |-> "private_key",
                     ssh_password |-> "", remote_bind_host |-> "localhost"]]

\* what the user may type into a field
FieldValues ==
    [host |-> {"localhost", "db1"}, port |-> {3306, 3307}, user |-> {"root"},
     password |-> {"", "pw"}, database |-> {""}]

SSHFieldValues ==
    [enabled |-> BOOLEAN, ssh_host |-> {"", "bastion"}, ssh_port |-> {22},
     ssh_user |-> {""}, auth_method |-> {"private_key"},
     ssh_password |-> {"", "s3cret"}, remote_bind_host |-> {"localhost", "10.0.0.5"}]

NoConfig == [kind |-> "undefined"]

\* part_011:828-830
IdleConnection == [status |-> "idle", lastTestedConfig |-> NoConfig]

\* part_011:623-628 and :838-842
dbChanged(last, formData) ==
    \/ last.host # formData.host
    \/ last.port # formData.port
    \/ last.user # formData.user
    \/ last.password # formData.password
    \/ last.database # formData.database

\* part_011:845-851
sshChanged(last, formData) ==
    \/ last.ssh_tunnel.enabled # formData.ssh_tunnel.enabled
    \/ /\ formData.ssh_tunnel.enabled
       /\ \/ last.ssh_tunnel.ssh_host # formData.ssh_tunnel.ssh_host
          \/ last.ssh_tunnel.ssh_port # formData.ssh_tunnel.ssh_port
          \/ last.ssh_tunnel.ssh_user # formData.ssh_tunnel.ssh_user
          \/ last.ssh_tunnel.auth_method # formData.ssh_tunnel.auth_method

\* part_011:833-854
hasConfigChanged(connectionState, formData) ==
    /\ connectionState.lastTestedConfig # NoConfig
    /\ \/ dbChanged(connectionState.lastTestedConfig, formData)
       \/ sshChanged(connectionState.lastTestedConfig, formData)

\* part_011:857-861: the effect that runs when formData has changed
resetOnChange(connectionState, formData) ==
    IF hasConfigChanged(connectionState, formData) /\ connectionState.status = "connected"
    THEN IdleConnection
    ELSE connectionState

selectorFrame == UNCHANGED <<genVars, uiVars, progress, syncEngine, taskApi>>

\* part_011:863-867 handleChange, and the effect after the render
HandleChange(field, value) ==
    /\ panel.kind = "selector"
    /\ LET newData == [panel.formData EXCEPT ![field] = value]
       IN  panel' = [panel EXCEPT
                        !.formData = newData,
                        !.parentConfig = newData,
                        !.connectionState =
                            IF newData # panel.formData
                            THEN resetOnChange(panel.connectionState, newData)
                            ELSE @]
    /\ selectorFrame

\* part_011:869-873 handleSSHTunnelChange, and the effect after the render
HandleSSHTunnelChange(field, value) ==
    /\ panel.kind = "selector"
    /\ LET newData == [panel.formData EXCEPT !.ssh_tunnel[field] = value]
       IN  panel' = [panel EXCEPT
                        !.formData = newData,
                        !.parentConfig = newData,
                        !.connectionState =
                            IF newData # panel.formData
                            THEN resetOnChange(panel.connectionState, newData)
                            ELSE @]
    /\ selectorFrame

\* part_011:901-914 testConnection up to its await; the button is disabled
\* while a test is awaited (part_011:1076)
TestConnection ==
    /\ panel.kind = "selector"
    /\ panel.connectionState.status # "testing"
    /\ panel' = [panel EXCEPT
                    !.connectionState = [status |-> "testing",
                                         lastTestedConfig |-> NoConfig],
                    !.testing = {panel.formData}]
    /\ selectorFrame

\* part_011:916-953: the test is answered; formData is the one of the render
\* in which the button was pressed
TestAnswered(formData, ok) ==
    /\ panel.kind = "selector"
    /\ formData \in panel.testing
    /\ panel' = [panel EXCEPT
                    !.testing = {},
                    !.connectionState =
                        [status |-> IF ok THEN "connected" ELSE "failed",
                         lastTestedConfig |-> formData]]
    /\ selectorFrame

InitSelector ==
    /\ difference = Diff("column_added", T("status"), Undefined, Undefined, <<>>, <<>>)
    /\ option1 = NotRendered
    /\ option2 = NotRendered
    /\ legacyOption1 = NotRendered
    /\ legacyOption2 = NotRendered
    /\ clipboard = NotRendered
    /\ ui = InitialState(1)
    /\ net = NoRequests
    /\ backend = InitBackend
    /\ progress = NotMounted
    /\ syncEngine = Idle
    /\ taskApi = NotStarted
    /\ panel = [kind |-> "selector", formData |-> DefaultFormData,
                parentConfig |-> DefaultFormData,
                connectionState |-> IdleConnection, testing |-> {}]

NextSelector ==
    \/ \E field \in DOMAIN FieldValues :
          \E value \in FieldValues[field] : HandleChange(field, value)
    \/ \E field \in DOMAIN SSHFieldValues :
          \E value \in SSHFieldValues[field] : HandleSSHTunnelChange(field, value)
    \/ TestConnection
    \/ \E formData \in panel.testing, ok \in BOOLEAN : TestAnswered(formData, ok)

SpecSelector == InitSelector /\ [][NextSelector]_vars

-----------------------------------------------------------------------------
(* Properties of DatabaseSelector, checked under SpecSelector *)

\* C23: whenever the status is 'connected', the form (host, port, user,
\* password, database and every SSH tunnel setting) equals the configuration
\* that was last tested with success, also when fields were edited while the
\* test was awaited.
C23_ConnectedMeansFormAsTested ==
    panel.kind = "selector" /\ panel.connectionState.status = "connected" =>
        panel.formData = panel.connectionState.lastTestedConfig

\* the host was edited while the test was awaited: 'connected' is shown for
\* a host that was never tested
C23_Witness ==
    /\ panel.kind = "selector"
    /\ panel.connectionState.status = "connected"
    /\ panel.testing = {}
    /\ panel.formData.host # panel.connectionState.lastTestedConfig.host

\* the tunnel password was edited after the test: 'connected' stays
C23_UncomparedSettingWitness ==
    /\ panel.kind = "selector"
    /\ panel.connectionState.status = "connected"
    /\ panel.formData.ssh_tunnel.enabled
    /\ ~dbChanged(panel.connectionState.lastTestedConfig, panel.formData)
    /\ panel.formData.ssh_tunnel.ssh_password
           # panel.connectionState.lastTestedConfig.ssh_tunnel.ssh_password

-----------------------------------------------------------------------------
(* SpecUpload: the private-key upload of SSHTunnelConfig.  The parent holds *)
(* formData and passes formData.ssh_tunnel down as config; a FileReader     *)
(* that is reading keeps the config and the onChange of the render in which *)
(* the file was chosen.  panel.last is the upload that ended in the last    *)
(* step, with the parent's formData as it was just before.                  *)

\* files being read at once
MaxReaders == 1

NoKeyType == "undefined"

RSA_KEY == <<"-----", "BEGIN RSA PRIVATE KEY", "-----", "MIIEow">>
OPENSSH_KEY == <<"-----", "BEGIN OPENSSH PRIVATE KEY", "-----", "b3Blbn">>
EC_KEY == <<"-----", "BEGIN EC PRIVATE KEY", "-----", "MHcCAQ">>
PUTTY_KEY == <<"PuTTY-User-Key-File-2: ssh-rsa">>

KeyFiles ==
    {[name |-> T("id_rsa"), content |-> RSA_KEY],
     [name |-> T("id_ed25519"), content |-> OPENSSH_KEY],
     [name |-> T("id_ecdsa"), content |-> EC_KEY],
     [name |-> T("key.ppk"), content |-> PUTTY_KEY]}

\* ssh/SSHTunnelConfig.tsx:86-93: the key type found in the text, or the
\* one the config had
detectKeyType(content, key_type) ==
    IF includes(content, T("BEGIN RSA PRIVATE KEY")) THEN "rsa"
    ELSE IF includes(content, T("BEGIN OPENSSH PRIVATE KEY")) THEN "ed25519"
    ELSE IF includes(content, T("BEGIN EC PRIVATE KEY")) THEN "ecdsa"
    ELSE key_type

\* ssh/SSHTunnelConfig.tsx:80-93: updatedConfig
updatedConfig(config, content) ==
    [config EXCEPT !.private_key_content = content,
                   !.private_key_path = <<>>,
                   !.key_type = detectKeyType(content, config.key_type)]

\* part_011:869-873 handleSSHTunnelChange (part_005:533-537
\* handleSSHConfigChange), of the render that holds formData
handleSSHTunnelChange(formData, sshConfig) == [formData EXCEPT !.ssh_tunnel = sshConfig]

\* part_005:75-78 handleConfigChange, of the render that holds config
handleConfigChange(config, field, value) == [config EXCEPT ![field] = value]

NoUpload == [kind |-> "none"]

uploadFrame == UNCHANGED <<genVars, uiVars, progress, syncEngine, taskApi>>

\* part_011:863-867 handleChange of the parent: the host is edited
EditHost(value) ==
    /\ panel.kind = "upload"
    /\ panel' = [panel EXCEPT !.formData.host = value, !.last = NoUpload]
    /\ uploadFrame

\* ssh/SSHTunnelConfig.tsx:63-70 handleConfigChange: the SSH host is edited
EditSSHHost(value) ==
    /\ panel.kind = "upload"
    /\ panel' = [panel EXCEPT
                    !.formData = handleSSHTunnelChange(
                                     panel.formData,
                                     handleConfigChange(panel.formData.ssh_tunnel,
                                                        "ssh_host", value)),
                    !.last = NoUpload]
    /\ uploadFrame

\* ssh/SSHTunnelConfig.tsx:72-75 and :103 (part_005:80-83 and :90): a file
\* is chosen and readAsText starts
ChooseFile(file) ==
    /\ panel.kind = "upload"
    /\ Cardinality(panel.reading) < MaxReaders
    /\ panel' = [panel EXCEPT
                    !.reading = @ \cup {[file |-> file, formData |-> panel.formData]},
                    !.last = NoUpload]
    /\ uploadFrame

\* ssh/SSHTunnelConfig.tsx:76-101: reader.onload
FileLoaded(reader) ==
    /\ panel.kind = "upload"
    /\ panel.component = "ssh/SSHTunnelConfig.tsx"
    /\ reader \in panel.reading
    /\ panel' = [panel EXCEPT
                    !.reading = @ \ {reader},
                    !.formData = handleSSHTunnelChange(
                                     reader.formData,
                                     updatedConfig(reader.formData.ssh_tunnel,
                                                   reader.file.content)),
                    !.last = [kind |-> "upload", file |-> reader.file,
                              before |-> panel.formData]]
    /\ uploadFrame

\* part_005:84-89: reader.onload of the other copy; of its two calls of
\* handleConfigChange the state set last is the one React keeps
LegacyFileLoaded(reader) ==
    /\ panel.kind = "upload"
    /\ panel.component = "part_005"
    /\ reader \in panel.reading
    /\ LET first == handleSSHTunnelChange(
                        reader.formData,
                        handleConfigChange(reader.formData.ssh_tunnel,
                                           "private_key_content", reader.file.content))
           second == handleSSHTunnelChange(
                         reader.formData,
                         handleConfigChange(reader.formData.ssh_tunnel,
                                            "private_key_path", reader.file.name))
       IN  panel' = [panel EXCEPT
                        !.reading = @ \ {reader},
                        !.formData = second,
                        !.last = [kind |-> "upload", file |-> reader.file,
                                  before |-> panel.formData]]
    /\ uploadFrame

InitUpload ==
    /\ difference = Diff("column_added", T("status"), Undefined, Undefined, <<>>, <<>>)
    /\ option1 = NotRendered
    /\ option2 = NotRendered
    /\ legacyOption1 = NotRendered
    /\ legacyOption2 = NotRendered
    /\ clipboard = NotRendered
    /\ ui = InitialState(1)
    /\ net = NoRequests
    /\ backend = InitBackend
    /\ progress = NotMounted
    /\ syncEngine = Idle
    /\ taskApi = NotStarted
    /\ \E component \in {"ssh/SSHTunnelConfig.tsx", "part_005"} :
          panel = [kind |-> "upload", component |-> component,
                   formData |-> [host |-> "localhost",
                                 ssh_tunnel |-> [enabled |-> TRUE, ssh_host |-> "",
                                                 private_key_content |-> <<>>,
                                                 private_key_path |-> <<>>,
                                                 key_type |-> NoKeyType]],
                   reading |-> {}, last |-> NoUpload]

NextUpload ==
    \/ \E value \in {"localhost", "db1"} : EditHost(value)
    \/ \E value \in {"", "bastion"} : EditSSHHost(value)
    \/ \E file \in KeyFiles : ChooseFile(file)
    \/ \E reader \in panel.reading : FileLoaded(reader)
    \/ \E reader \in panel.reading : LegacyFileLoaded(reader)

SpecUpload == InitUpload /\ [][NextUpload]_vars

-----------------------------------------------------------------------------
(* Properties of the key upload, checked under SpecUpload *)

\* the fields of the tunnel an upload may change
UploadedFields == {"private_key_content", "private_key_path", "key_type"}

\* every field the upload has no business with is as the parent had it
othersKept(before, after) ==
    /\ after.host = before.host
    /\ \A field \in DOMAIN before.ssh_tunnel \ UploadedFields :
          after.ssh_tunnel[field] = before.ssh_tunnel[field]

\* C24: when an upload has ended, the parent's private_key_content is the
\* text of the file, and every field of the configuration the parent held
\* just before, but private_key_path and key_type, is unchanged: edits made
\* while the file was read are kept.
C24_UploadChangesOnlyTheKey ==
    panel.kind = "upload" /\ panel.last # NoUpload =>
        /\ panel.formData.ssh_tunnel.private_key_content = panel.last.file.content
        /\ othersKept(panel.last.before, panel.formData)

\* SSHTunnelConfig.tsx: the upload ended with the file's text in place and
\* took back the SSH host typed while the file was read
C24_Witness ==
    /\ panel.kind = "upload"
    /\ panel.component = "ssh/SSHTunnelConfig.tsx"
    /\ panel.last # NoUpload
    /\ panel.formData.ssh_tunnel.private_key_content = panel.last.file.content
    /\ panel.last.before.ssh_tunnel.ssh_host = "bastion"
    /\ panel.formData.ssh_tunnel.ssh_host = ""

\* the other copy: the upload ended and the parent has the file's name but
\* not its text
C24_LegacyWitness ==
    /\ panel.kind = "upload"
    /\ panel.component = "part_005"
    /\ panel.last # NoUpload
    /\ othersKept(panel.last.before, panel.formData)
    /\ panel.formData.ssh_tunnel.private_key_path = panel.last.file.name
    /\ panel.formData.ssh_tunnel.private_key_content # panel.last.file.content

-----------------------------------------------------------------------------
(* SpecLabels: the label DifferenceDetail gives a difference and the source *)
(* type DifferencesList gives it.  A diff_type is the sequence of its       *)
(* characters, so that the tests made on it are tests of its text.          *)

\* the words diff_type values are made of, letter by letter
Spell ==
    [added |-> <<"a", "d", "d", "e", "d">>,
     changed |-> <<"c", "h", "a", "n", "g", "e", "d">>,
     column |-> <<"c", "o", "l", "u", "m", "n">>,
     columns |-> <<"c", "o", "l", "u", "m", "n", "s">>,
     constraint |-> <<"c", "o", "n", "s", "t", "r", "a", "i", "n", "t">>,
     default |-> <<"d", "e", "f", "a", "u", "l", "t">>,
     definition |-> <<"d", "e", "f", "i", "n", "i", "t", "i", "o", "n">>,
     duplicate |-> <<"d", "u", "p", "l", "i", "c", "a", "t", "e">>,
     extra |-> <<"e", "x", "t", "r", "a">>,
     index |-> <<"i", "n", "d", "e", "x">>,
     missing |-> <<"m", "i", "s", "s", "i", "n", "g">>,
     nullable |-> <<"n", "u", "l", "l", "a", "b", "l", "e">>,
     partition |-> <<"p", "a", "r", "t", "i", "t", "i", "o", "n">>,
     removed |-> <<"r", "e", "m", "o", "v", "e", "d">>,
     renamed |-> <<"r", "e", "n", "a", "m", "e", "d">>,
     routine |-> <<"r", "o", "u", "t", "i", "n", "e">>,
     schema |-> <<"s", "c", "h", "e", "m", "a">>,
     source |-> <<"s", "o", "u", "r", "c", "e">>,
     table |-> <<"t", "a", "b", "l", "e">>,
     target |-> <<"t", "a", "r", "g", "e", "t">>,
     trigger |-> <<"t", "r", "i", "g", "g", "e", "r">>,
     type |-> <<"t", "y", "p", "e">>,
     unique |-> <<"u", "n", "i", "q", "u", "e">>,
     view |-> <<"v", "i", "e", "w">>]

\* words joined by '_': 'column_added' is snake(<<"column", "added">>)
RECURSIVE snake(_)
snake(words) ==
    IF Len(words) = 1 THEN Spell[words[1]]
    ELSE Spell[words[1]] \o <<"_">> \o snake(Tail(words))

\* a literal written in capitals: 'MISSING_TARGET'
SNAKE(words) == toUpperCase(snake(words))

\* types/index.ts:129-157: the values of DiffType
DiffTypeValues ==
    {<<"schema", "missing", "source">>, <<"schema", "missing", "target">>,
     <<"table", "missing", "source">>, <<"table", "missing", "target">>,
     <<"column", "added">>, <<"column", "removed">>,
     <<"column", "type", "changed">>, <<"column", "default", "changed">>,
     <<"column", "nullable", "changed">>, <<"column", "extra", "changed">>,
     <<"index", "missing", "source">>, <<"index", "missing", "target">>,
     <<"index", "columns", "changed">>, <<"index", "type", "changed">>,
     <<"index", "unique", "changed">>,
     <<"constraint", "missing", "source">>,
     <<"constraint", "missing", "target">>,
     <<"constraint", "definition", "changed">>,
     <<"routine", "missing", "source">>,
     <<"routine", "missing", "target">>,
     <<"routine", "definition", "changed">>,
     <<"view", "missing", "source">>, <<"view", "missing", "target">>,
     <<"view", "definition", "changed">>,
     <<"trigger", "missing", "source">>,
     <<"trigger", "missing", "target">>,
     <<"trigger", "definition", "changed">>}

\* values DifferenceDetail.tsx has rules for beyond the enum
OtherDiffTypeValues ==
    {<<"column", "renamed">>, <<"index", "renamed">>,
     <<"index", "duplicate", "source">>,
     <<"index", "duplicate", "target">>, <<"constraint", "renamed">>,
     <<"partition", "missing", "source">>,
     <<"partition", "missing", "target">>,
     <<"partition", "definition", "changed">>}

DiffTypes == {snake(words) : words \in DiffTypeValues \cup OtherDiffTypeValues}

\* DifferenceDetail.tsx:361-375
getDiffTypeLabel(diff_type) ==
    IF includes(diff_type, SNAKE(<<"duplicate", "source">>)) THEN "Duplicate in Source"
    ELSE IF includes(diff_type, SNAKE(<<"duplicate", "target">>)) THEN "Duplicate in Target"
    ELSE IF \/ includes(diff_type, SNAKE(<<"missing", "target">>))
            \/ includes(diff_type, SNAKE(<<"removed">>))
    THEN "Source Only"
    ELSE IF \/ includes(diff_type, SNAKE(<<"missing", "source">>))
            \/ includes(diff_type, SNAKE(<<"added">>))
    THEN "Target Only"
    ELSE "Modified"

\* DifferencesList.tsx:43-52
getSourceType(diff_type) ==
    LET diffType == toLowerCase(diff_type)
    IN  IF \/ includes(diffType, snake(<<"missing", "target">>))
           \/ includes(diffType, snake(<<"removed">>))
        THEN "source-only"
        ELSE IF \/ includes(diffType, snake(<<"missing", "source">>))
                \/ includes(diffType, snake(<<"added">>))
        THEN "target-only"
        ELSE "both"

NotShown == "!not shown"

labelsFrame == UNCHANGED <<genVars, uiVars, progress, syncEngine, taskApi>>

\* DifferenceDetail.tsx:1036: the detail view shows the label
ShowDetail ==
    /\ panel.kind = "labels"
    /\ panel' = [panel EXCEPT !.detail = getDiffTypeLabel(panel.diff_type)]
    /\ labelsFrame

\* DifferencesList.tsx:294: the list shows the row of the difference
ShowList ==
    /\ panel.kind = "labels"
    /\ panel' = [panel EXCEPT !.list = getSourceType(panel.diff_type)]
    /\ labelsFrame

InitLabels ==
    /\ difference = Diff("column_added", T("status"), Undefined, Undefined, <<>>, <<>>)
    /\ option1 = NotRendered
    /\ option2 = NotRendered
    /\ legacyOption1 = NotRendered
    /\ legacyOption2 = NotRendered
    /\ clipboard = NotRendered
    /\ ui = InitialState(1)
    /\ net = NoRequests
    /\ backend = InitBackend
    /\ progress = NotMounted
    /\ syncEngine = Idle
    /\ taskApi = NotStarted
    /\ \E diff_type \in DiffTypes :
          panel = [kind |-> "labels", diff_type |-> diff_type,
                   detail |-> NotShown, list |-> NotShown]

NextLabels == ShowDetail \/ ShowList

SpecLabels == InitLabels /\ [][NextLabels]_vars

-----------------------------------------------------------------------------
(* Properties of the two views, checked under SpecLabels *)

endsWith(s, p) == Len(s) >= Len(p) /\ SubSeq(s, Len(s) - Len(p) + 1, Len(s)) = p

\* *_missing_target or *_removed
isSourceOnly(diff_type) ==
    \/ endsWith(diff_type, snake(<<"missing", "target">>))
    \/ endsWith(diff_type, snake(<<"removed">>))

\* *_missing_source or *_added
isTargetOnly(diff_type) ==
    \/ endsWith(diff_type, snake(<<"missing", "source">>))
    \/ endsWith(diff_type, snake(<<"added">>))

\* the label of the detail view that stands for a source type of the list
labelOf(sourceType) ==
    CASE sourceType = "source-only" -> "Source Only"
      [] sourceType = "target-only" -> "Target Only"
      [] sourceType = "both" -> "Modified"

\* C26: the two views classify every diff_type the same way: a
\* *_missing_target or *_removed difference is 'Source Only' in the detail
\* and 'source-only' in the list, a *_missing_source or *_added difference
\* 'Target Only' and 'target-only', and only the others 'Modified' / 'both'.
C26_ViewsClassifyAlike ==
    panel.kind = "labels" =>
        /\ panel.detail # NotShown =>
              panel.detail = IF isSourceOnly(panel.diff_type) THEN "Source Only"
                             ELSE IF isTargetOnly(panel.diff_type) THEN "Target Only"
                             ELSE "Modified"
        /\ panel.list # NotShown =>
              panel.list = IF isSourceOnly(panel.diff_type) THEN "source-only"
                           ELSE IF isTargetOnly(panel.diff_type) THEN "target-only"
                           ELSE "both"
        /\ panel.detail # NotShown /\ panel.list # NotShown =>
              panel.detail = labelOf(panel.list)

\* the list's half of the claim
C26_ListClassifies ==
    panel.kind = "labels" /\ panel.list # NotShown =>
        panel.list = IF isSourceOnly(panel.diff_type) THEN "source-only"
                     ELSE IF isTargetOnly(panel.diff_type) THEN "target-only"
                     ELSE "both"

\* table_missing_target shown by both views: 'source-only' in the list,
\* 'Modified' in the detail
C26_Witness ==
    /\ panel.kind = "labels"
    /\ panel.diff_type = snake(<<"table", "missing", "target">>)
    /\ panel.list = "source-only"
    /\ panel.detail = "Modified"

-----------------------------------------------------------------------------
(* Properties of ComparisonProgress, checked under SpecProgress *)

\* C11: once the comparison is completed on the server, and with
\* ComparisonProgress staying mounted until then, onComplete is called at
\* some time and the page leaves the progress view, whatever becomes of the
\* socket and its messages and however many status polls fail.
C11_CompletedLeadsToOnComplete ==
    (progress.server = "completed")
        ~> (progress.completions > 0 /\ progress.view # "progress")

C11_Witness ==
    /\ progress.server = "completed"
    /\ progress.completions > 0
    /\ progress.view = "results"
    /\ progress.ws = "connecting"
    /\ ~progress.progressShown

-----------------------------------------------------------------------------
(* Properties of ComparisonResults, checked under Spec *)

\* C1: executing a script whose analysis is 'high' takes an explicit
\* acknowledgement flag supplied by the caller: every execute request sent
\* for a high-risk script carries the flag.
C1_HighRiskExecuteCarriesAcknowledgement ==
    \A r \in net.execute :
        backend.risk[r.body.script.direction] = "high" => Acknowledged(r.body)

\* C2: the (script, target database) pair of every execute request is the
\* pair that was analyzed for the report the dialog showed when Confirm was
\* pressed.
C2_ExecutesWhatWasAnalyzed ==
    \A r \in net.execute :
        /\ r.shown # NoAnalysis
        /\ r.body.script = r.shown.script
        /\ r.body.target_database = r.shown.target_database

\* what a script in hand was generated for
generatedFor(script, comparisonId, direction) ==
    /\ script.comparison_id = comparisonId
    /\ script.direction = direction
    /\ script.filters = NoFilters

\* C10: a script held in the cache under direction d, and so a script that
\* is displayed or sent to be analyzed, was generated for the comparison on
\* display, for direction d and for the filters in force (none).
C10_CachedScriptIsForCurrentTuple ==
    /\ \A d \in Directions :
          ui.scriptCache[d] # NoScript
              => generatedFor(ui.scriptCache[d], ui.comparisonId, d)
    /\ \A r \in net.analyze :
          \E d \in Directions :
              /\ generatedFor(r.body.script, ui.comparisonId, d)
              /\ r.body.comparison_id = ui.comparisonId
              /\ r.body.target_database = (IF d = SOURCE_TO_TARGET THEN "target" ELSE "source")

\* the second comparison shows its cached target_to_source script and has it
\* analyzed
C10_Witness ==
    /\ ui.comparisonId = 2
    /\ ui.activeTab = "sync"
    /\ ui.syncDirection = TARGET_TO_SOURCE
    /\ ui.scriptCache[TARGET_TO_SOURCE] # NoScript
    /\ ui.scriptCache[SOURCE_TO_TARGET] # NoScript
    /\ net.analyze # {}

-----------------------------------------------------------------------------
(* Properties of the generators, checked under SpecGen *)

Rendered == option1 # NotRendered /\ option1 # Threw

isBag(v) == v.kind = "object"

ColumnChangedTypes ==
    {"column_type_changed", "column_nullable_changed", "column_default_changed",
     "column_extra_changed"}

\* what escaping is to be: each backslash and each single quote twice
RECURSIVE Doubled(_)
Doubled(t) ==
    IF t = <<>> THEN <<>>
    ELSE (IF Head(t) = BS \/ Head(t) = QT THEN <<Head(t), Head(t)>> ELSE <<Head(t)>>)
         \o Doubled(Tail(t))

QuotedLiteral(t) == <<QT>> \o Doubled(t) \o <<QT>>

\* a default that is an expression and not a literal
RecognizedExpression(t) ==
    toUpperCase(t) = NULLWORD \/ startsWith(toUpperCase(t), CURRENT_)

isLiteralDefault(v) == v.kind = "string" /\ ~RecognizedExpression(v.chars)

\* the path a value takes into the text of a rule: the full column
\* definition, ADD COLUMN, the primitive SET DEFAULT fallback, CREATE TABLE
emissionPath(diff_type, addType, createType, v) ==
    IF isBag(v) /\ diff_type \in ColumnChangedTypes \cup {"column_renamed"} THEN "definition"
    ELSE IF isBag(v) /\ diff_type = addType THEN "add"
    ELSE IF isBag(v) /\ diff_type = createType THEN "create"
    ELSE IF v.kind = "string" /\ diff_type = "column_default_changed" THEN "fallback"
    ELSE "none"

path1 == emissionPath(difference.diff_type, "column_added", "table_missing_source",
                      difference.target_value)
path2 == emissionPath(difference.diff_type, "column_removed", "table_missing_target",
                      difference.source_value)

\* every literal default and every comment of v is in the text escaped
escapedIn(text, path, v) ==
    /\ path = "definition" /\ v.comment # <<>>
          => contains(text, T(" COMMENT ") \o QuotedLiteral(v.comment))
    /\ path \in {"definition", "add"} /\ isLiteralDefault(v.column_default)
          => contains(text, T(" DEFAULT ") \o QuotedLiteral(v.column_default.chars))
    /\ path = "fallback" /\ isLiteralDefault(v)
          => contains(text, T(" SET DEFAULT ") \o QuotedLiteral(v.chars) \o T(";"))
    /\ path = "create"
          => \A i \in 1..Len(v.columns) :
                isLiteralDefault(v.columns[i].info.column_default)
                    => contains(text, T(" DEFAULT ")
                                \o QuotedLiteral(v.columns[i].info.column_default.chars))

\* C3: every string default and every column comment put into a generated
\* statement is escaped by doubling each backslash and each single quote, on
\* every emission path.
C3_EveryPathEscapes ==
    Rendered => /\ escapedIn(option1, path1, difference.target_value)
                /\ escapedIn(option2, path2, difference.source_value)

\* a bag with a comment and a non-null default
isFullBag(v) ==
    /\ isBag(v)
    /\ v.comment # <<>>
    /\ v.column_default.kind # "null"
    /\ v.column_default.kind # "undefined"

\* the MODIFY COLUMN statement keeps the attributes of the bag
keepsAttributes(text, v) ==
    /\ contains(text, T(" MODIFY COLUMN "))
    /\ contains(text, Or(v.column_type, v.data_type))
    /\ contains(text, T(" DEFAULT "))
    /\ contains(text, T(" COMMENT ") \o <<QT>>)
    /\ v.character_set # <<>> => contains(text, T(" CHARACTER SET ") \o v.character_set)
    /\ v.collation # <<>> => contains(text, T(" COLLATE ") \o v.collation)
    /\ v.extra # <<>> => contains(text, T(" ") \o v.extra)

\* C4: for a column_type_changed difference whose authoritative bag has a
\* comment and a non-null default, the MODIFY COLUMN statement holds the
\* DEFAULT and the COMMENT clause with type, nullability, charset, collation
\* and extra: in the component and in its earlier copy.
C4_ModifyColumnKeepsDefaultAndComment ==
    difference.diff_type = "column_type_changed" =>
        /\ Rendered /\ isFullBag(difference.target_value)
              => keepsAttributes(option1, difference.target_value)
        /\ Rendered /\ isFullBag(difference.source_value)
              => keepsAttributes(option2, difference.source_value)
        /\ legacyOption1 # NotRendered /\ isFullBag(difference.target_value)
              => keepsAttributes(legacyOption1, difference.target_value)
        /\ legacyOption2 # NotRendered /\ isFullBag(difference.source_value)
              => keepsAttributes(legacyOption2, difference.source_value)

\* the DEFAULT clause a column definition is to have for the default dv
defaultEmitted(text, dv) ==
    IF dv.kind \in {"null", "undefined"}
    THEN ~contains(text, T(" DEFAULT "))
    ELSE IF isLiteralDefault(dv)
    THEN contains(text, T(" DEFAULT ") \o QuotedLiteral(dv.chars))
    ELSE /\ contains(text, T(" DEFAULT ") \o dv.chars)
         /\ ~contains(text, T(" DEFAULT ") \o <<QT>>)

mirrorType(diff_type) ==
    CASE diff_type = "column_added" -> "column_removed"
      [] diff_type = "column_removed" -> "column_added"
      [] diff_type = "index_missing_target" -> "index_missing_source"
      [] diff_type = "index_missing_source" -> "index_missing_target"
      [] diff_type = "index_duplicate_source" -> "index_duplicate_target"
      [] diff_type = "index_duplicate_target" -> "index_duplicate_source"
      [] diff_type = "constraint_missing_target" -> "constraint_missing_source"
      [] diff_type = "constraint_missing_source" -> "constraint_missing_target"
      [] diff_type = "table_missing_target" -> "table_missing_source"
      [] diff_type = "table_missing_source" -> "table_missing_target"
      [] diff_type = "partition_missing_target" -> "partition_missing_source"
      [] diff_type = "partition_missing_source" -> "partition_missing_target"
      [] OTHER -> diff_type

RenamedDiffTypes == {"column_renamed", "index_renamed", "constraint_renamed"}

\* the field of a value that holds the object's name
nameField(diff_type) ==
    IF diff_type = "index_renamed" THEN "index_name" ELSE "constraint_name"

\* sub_object_name is the name on the source; seen from the other side it is
\* the name the target's value carries, when it carries one
mirrorName(d) ==
    IF /\ d.diff_type \in {"index_renamed", "constraint_renamed"}
       /\ isObject(d.target_value)
       /\ d.target_value[nameField(d.diff_type)] # <<>>
    THEN d.target_value[nameField(d.diff_type)]
    ELSE d.sub_object_name

mirror(d) ==
    [d EXCEPT !.diff_type = mirrorType(d.diff_type),
              !.sub_object_name = mirrorName(d),
              !.source_value = d.target_value, !.target_value = d.source_value,
              !.source_display_value = d.target_display_value,
              !.target_display_value = d.source_display_value]

\* a renamed difference that carries the name on either side
namesKnown(d) ==
    IF d.diff_type = "column_renamed"
    THEN /\ isObject(d.source_value) /\ isObject(d.target_value)
         /\ d.source_display_value # <<>> /\ d.target_display_value # <<>>
    ELSE /\ isObject(d.source_value) /\ isObject(d.target_value)
         /\ d.source_value[nameField(d.diff_type)] = d.sub_object_name
         /\ d.target_value[nameField(d.diff_type)] # <<>>

\* the side the text says it is to be executed on
sideOf(text) ==
    IF Len(text) >= 3 /\ text[1] = "--" /\ text[2] = " Execute on " THEN text[3] ELSE "none"

\* the statements of the two rules agree, and the side is exchanged
mirrors(forward, mirrored, side, otherSide) ==
    /\ executableLines(forward) = executableLines(mirrored)
    /\ sideOf(forward) = side => sideOf(mirrored) = otherSide

bothRulesMirror ==
    /\ mirrors(option1, generateOption2SQL(mirror(difference)), "SOURCE", "TARGET")
    /\ mirrors(option2, generateOption1SQL(mirror(difference)), "TARGET", "SOURCE")

\* C6 as stated: for every diff type the statement of one rule for a
\* difference is the statement of the other rule for the mirrored difference,
\* with the side it executes on exchanged.
C6_EveryDiffTypeMirrors == Rendered => bothRulesMirror

\* diff types whose two rules are not mirrors of each other: what is done
\* about a duplicate index differs with the side that holds it
AsymmetricDiffTypes == {"index_duplicate_source", "index_duplicate_target"}

\* C6 amended: the same, for every diff type but the duplicate-index ones,
\* and for a renamed difference when it carries both names (without them
\* each rule emits a template of its own, with new_name or old_name).
C6_DiffTypesMirrorButDuplicateIndex ==
    (/\ Rendered
     /\ difference.diff_type \notin AsymmetricDiffTypes
     /\ (difference.diff_type \in RenamedDiffTypes => namesKnown(difference)))
        => bothRulesMirror

\* an index renamed from idx_status to idx_state: option 1 renames it on the
\* source as option 2 renames it on the target for the difference seen from
\* the other side
C6_RenamedWitness ==
    /\ Rendered
    /\ difference.diff_type = "index_renamed"
    /\ namesKnown(difference)
    /\ difference.sub_object_name # difference.target_value.index_name
    /\ contains(option1, T(" RENAME INDEX "))
    /\ executableLines(option1)
           = executableLines(generateOption2SQL(mirror(difference)))

\* a column only the target has: option 1 adds it to the source from the
\* target's bag, as option 2 adds a column only the source has to the target
C6_Witness ==
    /\ Rendered
    /\ difference.diff_type = "column_added"
    /\ isBag(difference.target_value)
    /\ contains(option1, T(" ADD COLUMN "))
    /\ executableLines(option1) # <<>>
    /\ executableLines(option1)
           = executableLines(generateOption2SQL(mirror(difference)))

\* C7: for a column *_changed difference the text of option 1 depends on
\* the target's value alone and that of option 2 on the source's alone:
\* another value on the other side leaves it as it is, and no COMMENT clause
\* appears unless the authoritative bag has a comment.
C7_OnlyAuthoritativeSideIsRead ==
    Rendered /\ difference.diff_type \in ColumnChangedTypes =>
        /\ \A other \in OtherColumnValues :
              /\ generateOption1SQL([difference EXCEPT !.source_value = other]) = option1
              /\ generateOption2SQL([difference EXCEPT !.target_value = other]) = option2
        /\ Field(difference.target_value, "comment") = <<>>
              => ~contains(option1, T(" COMMENT "))
        /\ Field(difference.source_value, "comment") = <<>>
              => ~contains(option2, T(" COMMENT "))

\* the source has a comment the target lacks, and option 1 rewrites the
\* column from the target's bag
C7_Witness ==
    /\ Rendered
    /\ difference.diff_type = "column_extra_changed"
    /\ isBag(difference.target_value)
    /\ difference.target_value.comment = <<>>
    /\ Field(difference.source_value, "comment") # <<>>
    /\ contains(option1, T(" MODIFY COLUMN "))

\* the text is one comment line that names the diff type
isPlaceholderFor(text, diff_type) ==
    /\ text # Threw
    /\ Len(lines(text)) = 1
    /\ isCommentLine(text)
    /\ executableLines(text) = <<>>
    /\ \E i \in 1..Len(text) : text[i] = diff_type

\* C8: a difference whose diff type has no rule does not fail generation:
\* each generator returns one comment line naming the diff type and no
\* executable statement.
C8_NoRuleGivesPlaceholder ==
    option1 # NotRendered /\ difference.diff_type \in NoRuleDiffTypes =>
        /\ isPlaceholderFor(option1, difference.diff_type)
        /\ isPlaceholderFor(option2, difference.diff_type)

C8_Witness ==
    /\ option1 # NotRendered
    /\ difference.diff_type = "view_definition_changed"
    /\ option1 = option1Default(difference)
    /\ option2 = option2Default(difference)

onlyCommentLines(text) ==
    \A i \in 1..Len(lines(text)) : isCommentLine(lines(text)[i])

\* C9: for a change of the partition method or the partition expression
\* both options emit comment lines only.
C9_RebuildEmitsOnlyComments ==
    /\ Rendered
    /\ difference.diff_type = "partition_definition_changed"
    /\ requiresRebuild(difference.sub_object_name)
    => onlyCommentLines(option1) /\ onlyCommentLines(option2)

====
